---- MODULE Spec2Model ----
(***************************************************************************)
(* fintrack: the Dashboard summary (pages/Dashboard, found in              *)
(* src/src/pages/BankAccounts.tsx 266-448) and the Reports page            *)
(* (src/src/pages/Profile.tsx 163-339), each run against a store whose     *)
(* rows other sessions create and delete while the page's queries are in   *)
(* flight, under a wall clock that advances and a client time zone; and    *)
(* the pages that list and edit a table: Categories                        *)
(* (src/src/pages/Profile.tsx 340-657), Transactions                       *)
(* (src/src/pages/Transactions.tsx), BankAccounts                          *)
(* (src/src/pages/BankAccounts.tsx 1-265) and Assets (src/unnamed/part_001)*)
(* with their requests in flight, and the password form of the Profile     *)
(* page (src/src/pages/Profile.tsx 1-158).                                 *)
(*                                                                         *)
(* Encodings.  A nullable column is a sequence of length 0 (NULL) or 1.    *)
(* A Date object is a record [y, m, d, h] in the client's local time, to   *)
(* the hour; an ISO string (always UTC) is the same record shape in UTC.   *)
(* A calendar date (the transaction_date column, 'YYYY-MM-DD') is [y,m,d]. *)
(* An absent string (null, or '') is the empty string.                     *)
(***************************************************************************)
EXTENDS Integers, Sequences, FiniteSets, TLC

VARIABLES
    tz,            \* the client's UTC offset in hours (ambient, fixed per session)
    now,           \* the wall clock, local time: what `new Date()` returns
    user,          \* useAuth().user.id
    transactions,  \* store table `transactions`
    bank_accounts, \* store table `bank_accounts`
    assets,        \* store table `assets`
    route,         \* the page the router has mounted
    dash,          \* Dashboard: the run of fetchSummaryData (its position and locals)
    summary,       \* Dashboard: useState summary
    dashLoading,   \* Dashboard: useState loading
    rep,           \* Reports: the run of fetchReportData (its position and locals)
    monthlyData,   \* Reports: useState monthlyData
    categoryData,  \* Reports: useState categoryData
    repLoading,    \* Reports: useState loading
    categories,    \* store table `categories`
    cat,           \* Categories: its useState values and its requests in flight
    txn,           \* Transactions: its useState values and its requests in flight
    bank,          \* BankAccounts: its useState values and its requests in flight
    ast,           \* Assets: its useState values and its requests in flight
    prof,          \* Profile: the useState values of the password form, its request
    events         \* what has happened so far that the bound counts: clock advances,
                   \* writes by other sessions, failed queries, repeated runs of an
                   \* effect, changes the pages' requests make to the store

vars == <<tz, now, user, transactions, bank_accounts, assets, route, dash, summary,
          dashLoading, rep, monthlyData, categoryData, repLoading, categories, cat, txn,
          bank, ast, prof, events>>

envVars == <<tz, now, user, transactions, bank_accounts, assets, events>>
dashVars == <<dash, summary, dashLoading>>
repVars == <<rep, monthlyData, categoryData, repLoading>>
crudVars == <<categories, cat, txn, bank, ast, prof>>

----------------------------------------------------------------------------
(* Bounds of the model *)

\* clock advances, writes by other sessions, failed queries, repeated runs of an
\* effect and changes the pages' requests make to the store in one behaviour
MaxEvents == 1

\* list queries one page has in flight at once
MaxFetches == 2

----------------------------------------------------------------------------
(* Calendar: what Date, date-fns and the store's date column compute *)

IsLeap(y) == (y % 4 = 0 /\ y % 100 # 0) \/ y % 400 = 0

DaysInMonth(y, m) ==
    IF m = 2 THEN (IF IsLeap(y) THEN 29 ELSE 28)
    ELSE IF m \in {4, 6, 9, 11} THEN 30 ELSE 31

Min(a, b) == IF a < b THEN a ELSE b

\* the calendar day before / after a Date, time of day kept
PrevDay(dt) ==
    IF dt.d > 1 THEN [dt EXCEPT !.d = dt.d - 1]
    ELSE IF dt.m > 1 THEN [dt EXCEPT !.m = dt.m - 1, !.d = DaysInMonth(dt.y, dt.m - 1)]
    ELSE [dt EXCEPT !.y = dt.y - 1, !.m = 12, !.d = 31]

NextDay(dt) ==
    IF dt.d < DaysInMonth(dt.y, dt.m) THEN [dt EXCEPT !.d = dt.d + 1]
    ELSE IF dt.m < 12 THEN [dt EXCEPT !.m = dt.m + 1, !.d = 1]
    ELSE [dt EXCEPT !.y = dt.y + 1, !.m = 1, !.d = 1]

\* Date.prototype.toISOString: the local time shifted to UTC by the offset zone
toISOString(dt, zone) ==
    LET h == dt.h - zone IN
    IF h < 0 THEN [PrevDay(dt) EXCEPT !.h = h + 24]
    ELSE IF h > 23 THEN [NextDay(dt) EXCEPT !.h = h - 24]
    ELSE [dt EXCEPT !.h = h]

\* iso.split('T')[0], and equally the store's cast of a timestamp literal to the
\* date column's type: the calendar date of the string, its time of day dropped
DatePart(iso) == [y |-> iso.y, m |-> iso.m, d |-> iso.d]

\* the order of the date column
DateKey(date) == date.y * 10000 + date.m * 100 + date.d
DateGE(a, b) == DateKey(a) >= DateKey(b)
DateLE(a, b) == DateKey(a) <= DateKey(b)

\* date-fns startOfMonth / endOfMonth (local time); Dashboard's setDate(1), setHours(0,0,0,0)
startOfMonth(dt) == [dt EXCEPT !.d = 1, !.h = 0]
endOfMonth(dt) == [dt EXCEPT !.d = DaysInMonth(dt.y, dt.m), !.h = 23]

\* date-fns subMonths: n calendar months back, the day clamped to the target month
subMonths(dt, n) ==
    LET t == dt.y * 12 + (dt.m - 1) - n
        yy == t \div 12
        mm == (t % 12) + 1
    IN [dt EXCEPT !.y = yy, !.m = mm, !.d = Min(dt.d, DaysInMonth(yy, mm))]

\* date-fns format(date, 'MMM', {locale: id})
MonthNames ==
    <<"Jan", "Feb", "Mar", "Apr", "Mei", "Jun", "Jul", "Agt", "Sep", "Okt", "Nov", "Des">>
formatMMM(dt) == MonthNames[dt.m]

\* the calendar month of a date, as one number
MonthIndex(date) == date.y * 12 + (date.m - 1)

Date(yy, mm, dd) == [y |-> yy, m |-> mm, d |-> dd]
DateTime(yy, mm, dd, hh) == [y |-> yy, m |-> mm, d |-> dd, h |-> hh]

----------------------------------------------------------------------------
(* The store: rows, and the queries the pages send to it *)

Users == {"u1", "u2"}

\* the kinds of a transaction and of a category
Kinds == {"income", "expense"}

\* the rows of a table that belong to the user
OwnedBy(table, uid) == {r \in table : r.user_id = uid}

\* the rows of table `categories` sessions may hold: two expense categories (one
\* without a colour) and an income category of one user, a category of another
CategoryUniverse ==
    { [id |-> "c1", user_id |-> "u1", name |-> "Food", type |-> "expense",
       icon |-> "", color |-> "#111111"],
      [id |-> "c2", user_id |-> "u1", name |-> "Fun", type |-> "expense",
       icon |-> "", color |-> ""],
      [id |-> "c3", user_id |-> "u1", name |-> "Gaji", type |-> "income",
       icon |-> "", color |-> "#10B981"],
      [id |-> "c4", user_id |-> "u2", name |-> "Food", type |-> "expense",
       icon |-> "", color |-> "#111111"] }

\* select('..., categories(name, color)'): the category a transaction's category_id
\* refers to, embedded in the row; null when it refers to none
Joined(table, cid) ==
    IF \E k \in table : k.id = cid
    THEN LET k == CHOOSE k \in table : k.id = cid IN <<[name |-> k.name, color |-> k.color]>>
    ELSE <<>>

\* the id under which owner u holds the category embedded as c
CategoryIdOf(u, c) ==
    IF c = <<>> THEN ""
    ELSE (CHOOSE k \in CategoryUniverse : k.user_id = u /\ k.name = c[1].name).id

Tx(i, u, k, a, dt, c) ==
    [id |-> i, user_id |-> u, type |-> k, amount |-> a, transaction_date |-> dt,
     categories |-> c, category_id |-> CategoryIdOf(u, c), description |-> "x"]

Cat(n, c) == <<[name |-> n, color |-> c]>>

\* the transaction rows sessions may hold in the store: both owners, both kinds and a
\* kind outside them, a NULL and a negative amount, and dates on each side of the
\* month boundaries around May 2024
TxUniverse ==
    { Tx(1, "u1", "income", <<1000>>, Date(2024, 5, 10), <<>>),
      Tx(2, "u1", "expense", <<400>>, Date(2024, 5, 12), Cat("Food", "#111111")),
      Tx(3, "u1", "expense", <<200>>, Date(2024, 4, 1), <<>>),
      Tx(4, "u1", "expense", <<30>>, Date(2024, 4, 30), Cat("Fun", "")),
      Tx(5, "u1", "income", <<50>>, Date(2024, 6, 1), <<>>),
      Tx(6, "u1", "income", <<7>>, Date(2024, 5, 1), <<>>),
      Tx(7, "u1", "expense", <<9>>, Date(2024, 5, 31), Cat("Food", "#111111")),
      Tx(8, "u1", "transfer", <<60>>, Date(2024, 5, 15), <<>>),
      Tx(9, "u1", "expense", <<>>, Date(2024, 5, 20), <<>>),
      Tx(10, "u1", "expense", <<0 - 5>>, Date(2024, 5, 21), <<>>),
      Tx(11, "u2", "income", <<70>>, Date(2024, 5, 11), <<>>) }

Account(i, u, b) ==
    [id |-> i, user_id |-> u, bank_name |-> "Mandiri", account_number |-> "789",
     account_holder_name |-> "Budi", balance |-> b]

AccountUniverse ==
    { Account(1, "u1", <<500>>), Account(2, "u1", <<0 - 20>>), Account(3, "u2", <<90>>) }

Asset(i, u, v) ==
    [id |-> i, user_id |-> u, name |-> "Rumah", type |-> "Properti",
     acquired_at |-> Date(2023, 1, 5), initial_value |-> <<250>>, current_value |-> v]

AssetUniverse == { Asset(1, "u1", <<300>>), Asset(2, "u2", <<80>>) }

\* the whole store at one instant
StoreNow == [tx |-> transactions, acc |-> bank_accounts, ast |-> assets]

\* .from('transactions').select('type, amount').eq('user_id', uid)
\*    .gte('transaction_date', from)          (from: a 'YYYY-MM-DD' string)
DashTxQuery(S, uid, from) ==
    {t \in S.tx : t.user_id = uid /\ DateGE(t.transaction_date, from)}

\* .from('bank_accounts').select('balance').eq('user_id', uid)
DashAccountsQuery(S, uid) == {a \in S.acc : a.user_id = uid}

\* the assets query with its .eq('user_id', ...) filter left out
DashAssetsQueryUnfiltered(S, uid) == S.ast

\* .from('assets').select('current_value').eq('user_id', uid)
DashAssetsQuery(S, uid) == {a \in S.ast : a.user_id = uid}

\* a query's outcome {data, error}: data is null exactly when the query failed
Failed == [isNull |-> TRUE, rows |-> {}]
Rows(R) == [isNull |-> FALSE, rows |-> R]

----------------------------------------------------------------------------
(* JavaScript arithmetic of the sums *)

\* Number(x): Number(null) is 0
Number(a) == IF a = <<>> THEN 0 ELSE a[1]

\* rows.reduce((sum, r) => sum + Number(r.<col>), 0), over the column values vals
RECURSIVE SumNumber(_, _)
SumNumber(R, col) ==
    IF R = {} THEN 0
    ELSE LET r == CHOOSE x \in R : TRUE
         IN Number(r[col]) + SumNumber(R \ {r}, col)

\* the sum taken over the rows of every kind
SumOfAnyKind(res, kind) == IF res.isNull THEN 0 ELSE SumNumber(res.rows, "amount")

\* data?.filter(t => t.type === kind).reduce(...) || 0
SumOfKind(res, kind) ==
    IF res.isNull THEN 0
    ELSE SumNumber({t \in res.rows : t.type = kind}, "amount")

\* the sum taken over the rows whose value is not negative
SumColumnCredits(res, col) ==
    IF res.isNull THEN 0 ELSE SumNumber({r \in res.rows : Number(r[col]) >= 0}, col)

\* data?.reduce((sum, a) => sum + Number(a.<col>), 0) || 0
SumColumn(res, col) == IF res.isNull THEN 0 ELSE SumNumber(res.rows, col)

----------------------------------------------------------------------------
(* Dashboard *)

NoDate == Date(0, 0, 0)
NoDateTime == DateTime(0, 0, 0, 0)

DashInit ==
    [pc |-> "idle", uid |-> "", ref |-> NoDateTime, from |-> NoDate,
     txRes |-> Failed, accRes |-> Failed, astRes |-> Failed,
     income |-> 0, expense |-> 0, bankBalance |-> 0, snaps |-> {}]

SummaryInit ==
    [totalIncome |-> 0, totalExpense |-> 0, totalBankBalance |-> 0, totalAssets |-> 0]

\* startOfMonth.toISOString().split('T')[0] of `new Date()` with setDate(1), setHours(0,0,0,0)
DashFrom(clock, zone) == DatePart(toISOString(startOfMonth(clock), zone))

\* useEffect: fetchSummaryData() up to its first await; the effect runs when the page
\* is shown and again each time the auth context publishes the user anew (an event
\* of the environment)
DashStart ==
    /\ route = "dashboard"
    /\ dash.pc \in {"idle", "done"}
    /\ dash.pc = "done" => events < MaxEvents
    /\ dash' = [DashInit EXCEPT !.pc = "awaitTx", !.uid = user, !.ref = now,
                                !.from = DashFrom(now, tz)]
    /\ events' = IF dash.pc = "done" THEN events + 1 ELSE events
    /\ UNCHANGED <<summary, dashLoading>>
    /\ UNCHANGED <<tz, now, user, transactions, bank_accounts, assets>>
    /\ UNCHANGED repVars /\ UNCHANGED route /\ UNCHANGED crudVars

\* a query's answer: the rows the store holds when it is evaluated, or a failure
Answer(R, fail) == IF fail THEN Failed ELSE Rows(R)

CanFail(fail) == fail => events < MaxEvents
CountFailure(fail) == events' = IF fail THEN events + 1 ELSE events

store == <<transactions, bank_accounts, assets>>

\* the transactions query resolves: income and expense are summed
DashTxResponse ==
    /\ route = "dashboard"
    /\ dash.pc = "awaitTx"
    /\ \E fail \in BOOLEAN :
        /\ CanFail(fail)
        /\ CountFailure(fail)
        /\ LET res == Answer(DashTxQuery(StoreNow, dash.uid, dash.from), fail)
           IN dash' = [dash EXCEPT !.pc = "awaitAccounts", !.txRes = res,
                                   !.income = SumOfKind(res, "income"),
                                   !.expense = SumOfKind(res, "expense"),
                                   !.snaps = @ \cup {StoreNow}]
    /\ UNCHANGED <<summary, dashLoading>>
    /\ UNCHANGED <<tz, now, user, store>> /\ UNCHANGED repVars /\ UNCHANGED route /\ UNCHANGED crudVars

\* the bank accounts query resolves
DashAccountsResponse ==
    /\ route = "dashboard"
    /\ dash.pc = "awaitAccounts"
    /\ \E fail \in BOOLEAN :
        /\ CanFail(fail)
        /\ CountFailure(fail)
        /\ LET res == Answer(DashAccountsQuery(StoreNow, dash.uid), fail)
           IN dash' = [dash EXCEPT !.pc = "awaitAssets", !.accRes = res,
                                   !.bankBalance = SumColumn(res, "balance"),
                                   !.snaps = @ \cup {StoreNow}]
    /\ UNCHANGED <<summary, dashLoading>>
    /\ UNCHANGED <<tz, now, user, store>> /\ UNCHANGED repVars /\ UNCHANGED route /\ UNCHANGED crudVars

\* the assets query resolves: setSummary, then finally setLoading(false)
DashAssetsResponse ==
    /\ route = "dashboard"
    /\ dash.pc = "awaitAssets"
    /\ \E fail \in BOOLEAN :
        /\ CanFail(fail)
        /\ CountFailure(fail)
        /\ LET res == Answer(DashAssetsQuery(StoreNow, dash.uid), fail)
           IN /\ dash' = [dash EXCEPT !.pc = "done", !.astRes = res,
                                      !.snaps = @ \cup {StoreNow}]
              /\ summary' = [totalIncome |-> dash.income,
                             totalExpense |-> dash.expense,
                             totalBankBalance |-> dash.bankBalance,
                             totalAssets |-> SumColumn(res, "current_value")]
    /\ dashLoading' = FALSE
    /\ UNCHANGED <<tz, now, user, store>> /\ UNCHANGED repVars /\ UNCHANGED route /\ UNCHANGED crudVars

\* the card "Net Balance": summary.totalIncome - summary.totalExpense
NetBalance == summary.totalIncome - summary.totalExpense

----------------------------------------------------------------------------
(* The wall clock *)

\* the clock one hour on
NextHour(dt) == IF dt.h < 23 THEN [dt EXCEPT !.h = dt.h + 1] ELSE [NextDay(dt) EXCEPT !.h = 0]

RECURSIVE HoursOn(_, _)
HoursOn(dt, n) == IF n = 0 THEN dt ELSE HoursOn(NextHour(dt), n - 1)

\* n successive `new Date()` reads of one synchronous block: how far the clock has
\* advanced at each read, never backwards
ClockReads(n) ==
    {adv \in [1..n -> 0..(MaxEvents - events)] : \A a, b \in 1..n : a <= b => adv[a] <= adv[b]}

----------------------------------------------------------------------------
(* Reports *)

\* the number of months of the bar chart: `for (let i = 5; i >= 0; i--)`
NumMonths == 6

RepInit ==
    [pc |-> "idle", uid |-> "", ranges |-> <<>>, reads |-> <<>>, labelReads |-> <<>>,
     results |-> <<>>, summaryData |-> <<>>, catFrom |-> NoDateTime, catRes |-> Failed,
     threw |-> FALSE, snaps |-> {}]

\* .from('transactions').select('type, amount').eq('user_id', uid)
\*    .gte('transaction_date', startDate).lte('transaction_date', endDate)
\* startDate and endDate are full ISO timestamps; the column is a calendar date
RepMonthQuery(S, uid, range) ==
    {t \in S.tx : /\ t.user_id = uid
                  /\ DateGE(t.transaction_date, DatePart(range.start))
                  /\ DateLE(t.transaction_date, DatePart(range.end))}

\* .from('transactions').select('amount, categories(name, color)').eq('user_id', uid)
\*    .eq('type', 'expense').gte('transaction_date', currentMonthStart)
RepCategoryQuery(S, uid, from) ==
    {t \in S.tx : /\ t.user_id = uid
                  /\ t.type = "expense"
                  /\ DateGE(t.transaction_date, DatePart(from))}

\* the query range of loop iteration i, built from that iteration's `new Date()`
RepRange(clock, zone, i) ==
    LET date == subMonths(clock, i)
    IN [start |-> toISOString(startOfMonth(date), zone),
        end |-> toISOString(endOfMonth(date), zone)]

\* sum + t.amount: a null amount adds nothing
PlusAmount(sum, a) == IF a = <<>> THEN sum ELSE sum + a[1]

\* rows.reduce((sum, t) => sum + t.amount, 0)
RECURSIVE SumPlain(_)
SumPlain(R) ==
    IF R = {} THEN 0
    ELSE LET r == CHOOSE x \in R : TRUE
         IN PlusAmount(SumPlain(R \ {r}), r.amount)

\* result.data?.filter(t => t.type === kind).reduce(...) || 0
RepSumOfKind(res, kind) ==
    IF res.isNull THEN 0 ELSE SumPlain({t \in res.rows : t.type = kind})

\* the month label of the q-th map callback (index q - 1), from that callback's
\* `new Date()`: format(subMonths(new Date(), 5 - i), 'MMM')
RepLabelDate(clock, q) == subMonths(clock, NumMonths - q)

\* one entry of summaryData
RepEntry(clock, res, q) ==
    [month |-> formatMMM(RepLabelDate(clock, q)),
     income |-> RepSumOfKind(res, "income"),
     expense |-> RepSumOfKind(res, "expense")]

\* useEffect: fetchReportData() up to its first await: setLoading(true), the loop that
\* builds the six queries (the q-th is iteration i = 6 - q), Promise.all sends them
RepStart ==
    /\ route = "reports"
    /\ rep.pc = "idle"
    /\ \E adv \in ClockReads(NumMonths) :
        LET read == [q \in 1..NumMonths |-> HoursOn(now, adv[q])]
        IN /\ rep' = [rep EXCEPT
                        !.pc = "awaitMonthly", !.uid = user, !.reads = read,
                        !.ranges = [q \in 1..NumMonths |->
                                       RepRange(read[q], tz, NumMonths - q)]]
           /\ now' = read[NumMonths]
           /\ events' = events + adv[NumMonths]
    /\ repLoading' = TRUE
    /\ UNCHANGED <<monthlyData, categoryData>>
    /\ UNCHANGED <<tz, user, store>> /\ UNCHANGED dashVars /\ UNCHANGED route /\ UNCHANGED crudVars

\* the next of the six monthly queries resolves (they are answered in the order sent)
RepMonthlyResponse ==
    /\ route = "reports"
    /\ rep.pc = "awaitMonthly"
    /\ Len(rep.results) < NumMonths
    /\ \E fail \in BOOLEAN :
        /\ CanFail(fail)
        /\ CountFailure(fail)
        /\ LET q == Len(rep.results) + 1
               res == Answer(RepMonthQuery(StoreNow, rep.uid, rep.ranges[q]), fail)
           IN rep' = [rep EXCEPT !.results = Append(@, res),
                                 !.snaps = @ \cup {StoreNow}]
    /\ UNCHANGED <<monthlyData, categoryData, repLoading>>
    /\ UNCHANGED <<tz, now, user, store>> /\ UNCHANGED dashVars /\ UNCHANGED route /\ UNCHANGED crudVars

\* the await of Promise.all returns: monthlyResults.map, setMonthlyData(summaryData),
\* and the category query built from one more `new Date()`
RepSetMonthly ==
    /\ route = "reports"
    /\ rep.pc = "awaitMonthly"
    /\ Len(rep.results) = NumMonths
    /\ \E adv \in ClockReads(NumMonths + 1) :
        LET read == [q \in 1..(NumMonths + 1) |-> HoursOn(now, adv[q])]
            data == [q \in 1..NumMonths |-> RepEntry(read[q], rep.results[q], q)]
        IN /\ rep' = [rep EXCEPT
                        !.pc = "awaitCategory", !.summaryData = data,
                        !.labelReads = SubSeq(read, 1, NumMonths),
                        !.catFrom = toISOString(startOfMonth(read[NumMonths + 1]), tz)]
           /\ monthlyData' = data
           /\ now' = read[NumMonths + 1]
           /\ events' = events + adv[NumMonths + 1]
    /\ UNCHANGED <<categoryData, repLoading>>
    /\ UNCHANGED <<tz, user, store>> /\ UNCHANGED dashVars /\ UNCHANGED route /\ UNCHANGED crudVars

\* the label and colour a row is grouped under: t.categories?.name || 'Lain-lain',
\* t.categories?.color || '#8884d8'
CategoryName(t) ==
    IF t.categories # <<>> /\ t.categories[1].name # "" THEN t.categories[1].name
    ELSE "Lain-lain"

CategoryColor(t) ==
    IF t.categories # <<>> /\ t.categories[1].color # "" THEN t.categories[1].color
    ELSE "#8884d8"

\* the forEach body with every row opening a group of its own
AddToGroupsUnmerged(groups, t) ==
    Append(groups, [name |-> CategoryName(t), value |-> PlusAmount(0, t.amount),
                    color |-> CategoryColor(t)])

\* the forEach body: expenseByCategory as its keys in insertion order
AddToGroups(groups, t) ==
    IF \E g \in 1..Len(groups) : groups[g].name = CategoryName(t)
    THEN [g \in 1..Len(groups) |->
             IF groups[g].name = CategoryName(t)
             THEN [groups[g] EXCEPT !.value = PlusAmount(@, t.amount)]
             ELSE groups[g]]
    ELSE Append(groups, [name |-> CategoryName(t), value |-> PlusAmount(0, t.amount),
                         color |-> CategoryColor(t)])

\* currentMonthTransactions.forEach(...), then Object.keys(...).map(...): pieData
RECURSIVE ExpenseByCategory(_)
ExpenseByCategory(rows) ==
    IF rows = <<>> THEN <<>>
    ELSE AddToGroups(ExpenseByCategory(SubSeq(rows, 1, Len(rows) - 1)), rows[Len(rows)])

\* the palette of the pie chart
COLORS == <<"#6366F1", "#8B5CF6", "#EC4899", "#F59E0B", "#10B981", "#3B82F6">>

\* <Cell fill={entry.color || COLORS[index % COLORS.length]} />, index counted from 0
CellFill(entry, index) ==
    IF entry.color # "" THEN entry.color ELSE COLORS[(index % Len(COLORS)) + 1]

\* categoryData.map((entry, index) => <Cell ... />): the fills the chart is drawn with
PieFills == [g \in 1..Len(categoryData) |-> CellFill(categoryData[g], g - 1)]

\* the orders in which the store may return a set of rows (the query has no .order)
Orders(R) ==
    {f \in [1..Cardinality(R) -> R] : \A a, b \in 1..Cardinality(R) : a # b => f[a] # f[b]}

\* the category query resolves: on error the handler throws into its catch; otherwise
\* setCategoryData(pieData); finally setLoading(false)
RepCategoryResponse ==
    /\ route = "reports"
    /\ rep.pc = "awaitCategory"
    /\ \E fail \in BOOLEAN :
        /\ CanFail(fail)
        /\ CountFailure(fail)
        /\ LET res == Answer(RepCategoryQuery(StoreNow, rep.uid, rep.catFrom), fail)
           IN /\ rep' = [rep EXCEPT !.pc = "done", !.catRes = res, !.threw = fail,
                                    !.snaps = @ \cup {StoreNow}]
              /\ \E order \in Orders(res.rows) :
                    categoryData' = IF fail THEN categoryData ELSE ExpenseByCategory(order)
    /\ repLoading' = FALSE
    /\ UNCHANGED monthlyData
    /\ UNCHANGED <<tz, now, user, store>> /\ UNCHANGED dashVars /\ UNCHANGED route /\ UNCHANGED crudVars

----------------------------------------------------------------------------
(* The requests of the pages that edit a table *)

\* a request in flight: insert(values), update(values).eq('id', id) or delete().eq('id', id)
Request(o, v, i) == [op |-> o, values |-> v, id |-> i]

\* the ids the store gives to the rows inserted in one behaviour, none of them twice
FreshCategoryIds == <<"n1", "n2", "n3", "n4", "n5", "n6", "n7", "n8">>
FreshCategoryId ==
    FreshCategoryIds[events + 1 +
        Cardinality({c \in categories : \E k \in DOMAIN FreshCategoryIds : c.id = FreshCategoryIds[k]})]
FreshId ==
    101 + events + Cardinality({r \in transactions : r.id > 100})
        + Cardinality({r \in bank_accounts : r.id > 100})
        + Cardinality({r \in assets : r.id > 100})

\* a request that changes its table is an event of the behaviour; one that leaves the
\* table as it is (an update to the values the row has, a request that fails) is not
CanWrite(before, after) == after # before => events < MaxEvents
CountWrite(before, after) == events' = IF after # before THEN events + 1 ELSE events

\* a sequence without its i-th element
Without(seq, i) == SubSeq(seq, 1, i - 1) \o SubSeq(seq, i + 1, Len(seq))

\* what a list query in flight is answered with: the rows it selects from the table as
\* it is when the request is sent (sent) or as it is when the answer arrives (atArrival)
FetchAnswers(sent, atArrival) == {sent, atArrival}

----------------------------------------------------------------------------
(* Categories *)

DefaultIcon == "(chart)"
DefaultColor == "#6366F1"

CatFormDefaults ==
    [name |-> "", type |-> "income", icon |-> DefaultIcon, color |-> DefaultColor]

\* the state of the component; fetches: the list queries in flight, each with the rows
\* it selected when sent; request: the insert, update or delete in flight; opener: the
\* control that opened the dialog now open; toast: what the latest step reported
CatInit ==
    [pc |-> "idle", categories |-> {}, loading |-> TRUE, dialogOpen |-> FALSE,
     opener |-> "", editingCategory |-> <<>>, formData |-> CatFormDefaults,
     fetches |-> <<>>, request |-> <<>>, toast |-> ""]

\* what the user may type into the inputs of the form
CatInputs == [name |-> {"Rent"}, icon |-> {DefaultIcon}, color |-> {"#EC4899"}]

\* the variables no step of the Categories page changes
catFrame ==
    <<tz, now, user, route, transactions, bank_accounts, assets, dash, summary,
      dashLoading, rep, monthlyData, categoryData, repLoading, txn, bank, ast, prof>>

\* .from('categories').select('*').eq('user_id', uid).order('name')
CategoriesQuery(table, uid) == {k \in table : k.user_id = uid}

\* useEffect: fetchCategories()
CatStart ==
    /\ route = "categories"
    /\ cat.pc = "idle"
    /\ cat' = [cat EXCEPT !.pc = "shown",
                          !.fetches = <<CategoriesQuery(categories, user)>>]
    /\ UNCHANGED <<categories, events>> /\ UNCHANGED catFrame

\* a fetchCategories in flight resolves, in any order with the others:
\* setCategories(data || []) or the catch; setLoading(false)
CatFetchResponse ==
    /\ route = "categories"
    /\ \E i \in 1..Len(cat.fetches) : \E fail \in BOOLEAN :
        /\ CanFail(fail)
        /\ CountFailure(fail)
        /\ \E data \in FetchAnswers(cat.fetches[i], CategoriesQuery(categories, user)) :
            cat' = [cat EXCEPT
                      !.fetches = Without(@, i), !.loading = FALSE,
                      !.toast = IF fail THEN "error" ELSE "",
                      !.categories = IF fail THEN @ ELSE data]
    /\ UNCHANGED categories /\ UNCHANGED catFrame

\* the Add Category button (it also opens the dialog it is the trigger of)
CatOpenNew ==
    /\ route = "categories"
    /\ cat.request = <<>>
    /\ ~cat.loading /\ ~cat.dialogOpen
    /\ cat' = [cat EXCEPT !.editingCategory = <<>>, !.formData = CatFormDefaults,
                          !.dialogOpen = TRUE, !.opener = "add", !.toast = ""]
    /\ UNCHANGED <<categories, events>> /\ UNCHANGED catFrame

\* openEditDialog(category), from the pencil button of a listed category
CatOpenEdit ==
    /\ route = "categories"
    /\ cat.request = <<>>
    /\ ~cat.loading /\ ~cat.dialogOpen
    /\ \E category \in cat.categories :
        cat' = [cat EXCEPT
                  !.editingCategory = <<category>>,
                  !.formData =
                      [name |-> category.name, type |-> category.type,
                       icon |-> IF category.icon # "" THEN category.icon ELSE DefaultIcon,
                       color |-> IF category.color # "" THEN category.color
                                 ELSE DefaultColor],
                  !.dialogOpen = TRUE, !.opener = "edit", !.toast = ""]
    /\ UNCHANGED <<categories, events>> /\ UNCHANGED catFrame

\* onChange of the name, icon and colour inputs
CatFormChange ==
    /\ route = "categories"
    /\ cat.request = <<>>
    /\ cat.dialogOpen
    /\ \E field \in DOMAIN CatInputs : \E value \in CatInputs[field] :
        cat' = [cat EXCEPT !.formData[field] = value, !.toast = ""]
    /\ UNCHANGED <<categories, events>> /\ UNCHANGED catFrame

\* {!editingCategory && (...)}: the type radios are rendered only when not editing
TypeRadioShown == cat.editingCategory = <<>>

\* onChange of a type radio
CatTypeChange ==
    /\ route = "categories"
    /\ cat.request = <<>>
    /\ cat.dialogOpen
    /\ TypeRadioShown
    /\ \E type \in Kinds : cat' = [cat EXCEPT !.formData.type = type, !.toast = ""]
    /\ UNCHANGED <<categories, events>> /\ UNCHANGED catFrame

\* onOpenChange(false): the dialog is dismissed
CatDialogClose ==
    /\ route = "categories"
    /\ cat.request = <<>>
    /\ cat.dialogOpen
    /\ cat' = [cat EXCEPT !.dialogOpen = FALSE, !.opener = "", !.toast = ""]
    /\ UNCHANGED <<categories, events>> /\ UNCHANGED catFrame

\* the update with the type written as well
CategoryUpdateWithType(formData) ==
    [name |-> formData.name, type |-> formData.type, icon |-> formData.icon,
     color |-> formData.color]

\* .update({name, icon, color})
CategoryUpdate(formData) ==
    [name |-> formData.name, icon |-> formData.icon, color |-> formData.color]

\* .insert({user_id, name, type, icon, color})
CategoryInsert(uid, formData) ==
    [user_id |-> uid, name |-> formData.name, type |-> formData.type,
     icon |-> formData.icon, color |-> formData.color]

\* the column col of a row after an update that sets the columns of values
Updated(row, values, col) == IF col \in DOMAIN values THEN values[col] ELSE row[col]

\* table `categories` after a request
CategoriesAfter(table, req) ==
    CASE req.op = "insert" ->
            table \cup {[id |-> FreshCategoryId, user_id |-> req.values.user_id,
                         name |-> req.values.name, type |-> req.values.type,
                         icon |-> req.values.icon, color |-> req.values.color]}
      [] req.op = "update" ->
            {IF k.id # req.id THEN k
             ELSE [id |-> k.id, user_id |-> k.user_id,
                   name |-> Updated(k, req.values, "name"),
                   type |-> Updated(k, req.values, "type"),
                   icon |-> Updated(k, req.values, "icon"),
                   color |-> Updated(k, req.values, "color")] : k \in table}
      [] req.op = "delete" -> {k \in table : k.id # req.id}

\* handleSubmit up to its await (the form submits only with its required name filled)
CatSubmit ==
    /\ route = "categories"
    /\ cat.dialogOpen
    /\ cat.formData.name # ""
    /\ cat.request = <<>>
    /\ LET request == IF cat.editingCategory # <<>>
                      THEN Request("update", CategoryUpdate(cat.formData), cat.editingCategory[1].id)
                      ELSE Request("insert", CategoryInsert(user, cat.formData), "")
       IN /\ CanWrite(categories, CategoriesAfter(categories, request))
          /\ CountWrite(categories, CategoriesAfter(categories, request))
          /\ cat' = [cat EXCEPT !.toast = "", !.request = <<request>>]
    /\ UNCHANGED categories /\ UNCHANGED catFrame

\* handleSubmit after its await: on error the catch; otherwise the dialog closes, the
\* editing target and the form are reset and fetchCategories() is called
CatSubmitResponse(fail) ==
    /\ route = "categories"
    /\ cat.request # <<>>
    /\ cat.request[1].op \in {"insert", "update"}
    /\ IF fail
       THEN /\ cat' = [cat EXCEPT !.request = <<>>, !.toast = "error"]
            /\ UNCHANGED <<categories, events>>
       ELSE /\ Len(cat.fetches) < MaxFetches
            /\ categories' = CategoriesAfter(categories, cat.request[1])
            /\ UNCHANGED events
            /\ cat' = [cat EXCEPT
                         !.request = <<>>, !.toast = "success", !.dialogOpen = FALSE,
                         !.opener = "", !.editingCategory = <<>>,
                         !.formData = CatFormDefaults,
                         !.fetches = Append(@, CategoriesQuery(categories', user))]
    /\ UNCHANGED catFrame

\* handleDelete without its confirm()
CatDeleteUnasked(confirmed) ==
    /\ route = "categories"
    /\ ~cat.loading /\ ~cat.dialogOpen
    /\ \E category \in cat.categories :
        LET request == Request("delete", <<>>, category.id)
        IN IF TRUE
           THEN /\ cat.request = <<>>
                /\ CanWrite(categories, CategoriesAfter(categories, request))
                /\ CountWrite(categories, CategoriesAfter(categories, request))
                /\ cat' = [cat EXCEPT !.toast = "", !.request = <<request>>]
           ELSE UNCHANGED <<cat, events>>
    /\ UNCHANGED categories /\ UNCHANGED catFrame

\* handleDelete(id) up to its await: nothing happens unless confirm() returns true
CatDelete(confirmed) ==
    /\ route = "categories"
    /\ ~cat.loading /\ ~cat.dialogOpen
    /\ \E category \in cat.categories :
        LET request == Request("delete", <<>>, category.id)
        IN IF confirmed
           THEN /\ cat.request = <<>>
                /\ CanWrite(categories, CategoriesAfter(categories, request))
                /\ CountWrite(categories, CategoriesAfter(categories, request))
                /\ cat' = [cat EXCEPT !.toast = "", !.request = <<request>>]
           ELSE UNCHANGED <<cat, events>>
    /\ UNCHANGED categories /\ UNCHANGED catFrame

\* handleDelete after its await: on error the catch, otherwise fetchCategories()
CatDeleteResponse(fail) ==
    /\ route = "categories"
    /\ cat.request # <<>>
    /\ cat.request[1].op = "delete"
    /\ IF fail
       THEN /\ cat' = [cat EXCEPT !.request = <<>>, !.toast = "error"]
            /\ UNCHANGED <<categories, events>>
       ELSE /\ Len(cat.fetches) < MaxFetches
            /\ categories' = CategoriesAfter(categories, cat.request[1])
            /\ UNCHANGED events
            /\ cat' = [cat EXCEPT
                         !.request = <<>>, !.toast = "success",
                         !.fetches = Append(@, CategoriesQuery(categories', user))]
    /\ UNCHANGED catFrame

----------------------------------------------------------------------------
(* Transactions *)

\* the numbers the amount input and the listed rows spell, with their decimal text
NumberTexts ==
    {<<0 - 5, "-5">>, <<400, "400">>, <<500, "500">>, <<0 - 20, "-20">>, <<300, "300">>,
     <<250, "250">>}

\* parseFloat(text): NaN (which the request carries as null) unless text is a numeral
parseFloat(text) ==
    IF \E p \in NumberTexts : p[2] = text
    THEN <<(CHOOSE p \in NumberTexts : p[2] = text)[1]>>
    ELSE <<>>

\* Number.prototype.toString
toString(n) == (CHOOSE p \in NumberTexts : p[1] = n)[2]

TxnFormDefaults(date) ==
    [description |-> "", amount |-> "", transaction_date |-> date, type |-> "expense",
     category_id |-> ""]

\* the state of the component, with fetches, request, opener and toast as on the
\* Categories page
TxnInit ==
    [pc |-> "idle", transactions |-> {}, categories |-> {}, loading |-> TRUE,
     dialogOpen |-> FALSE, opener |-> "", editingTransaction |-> <<>>,
     formData |-> TxnFormDefaults(NoDate), fetches |-> <<>>, categoryFetches |-> 0,
     request |-> <<>>, toast |-> ""]

\* what the user may type into the inputs of the form
TxnInputs ==
    [description |-> {"x"}, amount |-> {"-5"},
     transaction_date |-> {Date(2024, 5, 12)}]

\* the variables no step of the Transactions page changes
txnFrame ==
    <<tz, now, user, route, bank_accounts, assets, categories, dash, summary,
      dashLoading, rep, monthlyData, categoryData, repLoading, cat, bank, ast, prof>>

\* .from("transactions").select("*, categories(name, icon, color)").eq("user_id", uid)
TransactionsQuery(table, cats, uid) ==
    {[t EXCEPT !.categories = Joined(cats, t.category_id)] : t \in OwnedBy(table, uid)}

\* .from("categories").select("id, name, type").eq("user_id", uid)
TxnCategoriesQuery(table, uid) ==
    {[id |-> k.id, name |-> k.name, type |-> k.type] : k \in OwnedBy(table, uid)}

\* useEffect: fetchTransactions(); fetchCategories()
TxnStart ==
    /\ route = "transactions"
    /\ txn.pc = "idle"
    /\ txn' = [txn EXCEPT !.pc = "shown", !.categoryFetches = 1,
                          !.fetches = <<TransactionsQuery(transactions, categories, user)>>]
    /\ UNCHANGED <<transactions, events>> /\ UNCHANGED txnFrame

\* a fetchTransactions in flight resolves, in any order with the others:
\* setTransactions(data) or the catch; setLoading(false)
TxnFetchResponse ==
    /\ route = "transactions"
    /\ \E i \in 1..Len(txn.fetches) : \E fail \in BOOLEAN :
        /\ CanFail(fail)
        /\ CountFailure(fail)
        /\ \E data \in FetchAnswers(txn.fetches[i],
                                    TransactionsQuery(transactions, categories, user)) :
            txn' = [txn EXCEPT
                      !.fetches = Without(@, i), !.loading = FALSE,
                      !.toast = IF fail THEN "error" ELSE "",
                      !.transactions = IF fail THEN @ ELSE data]
    /\ UNCHANGED transactions /\ UNCHANGED txnFrame

\* fetchCategories resolves: setCategories(data || []) or the catch, which reports
\* to the console only
TxnCategoriesResponse ==
    /\ route = "transactions"
    /\ txn.categoryFetches > 0
    /\ \E fail \in BOOLEAN :
        /\ CanFail(fail)
        /\ CountFailure(fail)
        /\ txn' = [txn EXCEPT
                     !.categoryFetches = @ - 1, !.toast = "",
                     !.categories = IF fail THEN @ ELSE TxnCategoriesQuery(categories, user)]
    /\ UNCHANGED transactions /\ UNCHANGED txnFrame

\* the Tambah Transaksi button: the date defaults to
\* new Date().toISOString().substring(0, 10)
TxnOpenNew ==
    /\ route = "transactions"
    /\ txn.request = <<>>
    /\ ~txn.loading /\ ~txn.dialogOpen
    /\ txn' = [txn EXCEPT !.editingTransaction = <<>>,
                          !.formData = TxnFormDefaults(DatePart(toISOString(now, tz))),
                          !.dialogOpen = TRUE, !.opener = "add", !.toast = ""]
    /\ UNCHANGED <<transactions, events>> /\ UNCHANGED txnFrame

\* openEditDialog(transaction): transaction.amount.toString() throws on a null amount,
\* after setEditingTransaction and before setFormData and setDialogOpen
TxnOpenEdit ==
    /\ route = "transactions"
    /\ txn.request = <<>>
    /\ ~txn.loading /\ ~txn.dialogOpen
    /\ \E transaction \in txn.transactions :
        txn' = IF transaction.amount = <<>>
               THEN [txn EXCEPT !.editingTransaction = <<transaction>>, !.toast = ""]
               ELSE [txn EXCEPT
                       !.editingTransaction = <<transaction>>,
                       !.formData =
                           [description |-> transaction.description,
                            amount |-> toString(transaction.amount[1]),
                            transaction_date |-> transaction.transaction_date,
                            type |-> transaction.type,
                            category_id |-> transaction.category_id],
                       !.dialogOpen = TRUE, !.opener = "edit", !.toast = ""]
    /\ UNCHANGED <<transactions, events>> /\ UNCHANGED txnFrame

\* handleTypeChange with the category left as it is
TypeChangedKeepingCategory(formData, type) == [formData EXCEPT !.type = type]

\* handleTypeChange: {...formData, type, category_id: ""}
TypeChanged(formData, type) == [formData EXCEPT !.type = type, !.category_id = ""]

\* onChange of a type radio
TxnTypeChange ==
    /\ route = "transactions"
    /\ txn.request = <<>>
    /\ txn.dialogOpen
    /\ \E type \in Kinds :
        txn' = [txn EXCEPT !.formData = TypeChanged(@, type), !.toast = ""]
    /\ UNCHANGED <<transactions, events>> /\ UNCHANGED txnFrame

\* categories.filter((c) => c.type === formData.type): the items of the Select
filteredCategories == {c \in txn.categories : c.type = txn.formData.type}

\* onValueChange of the category Select
TxnSelectCategory ==
    /\ route = "transactions"
    /\ txn.request = <<>>
    /\ txn.dialogOpen
    /\ \E category \in filteredCategories :
        txn' = [txn EXCEPT !.formData.category_id = category.id, !.toast = ""]
    /\ UNCHANGED <<transactions, events>> /\ UNCHANGED txnFrame

\* onChange of the description, amount and date inputs
TxnFormChange ==
    /\ route = "transactions"
    /\ txn.request = <<>>
    /\ txn.dialogOpen
    /\ \E field \in DOMAIN TxnInputs : \E value \in TxnInputs[field] :
        txn' = [txn EXCEPT !.formData[field] = value, !.toast = ""]
    /\ UNCHANGED <<transactions, events>> /\ UNCHANGED txnFrame

\* onOpenChange(false): the dialog is dismissed
TxnDialogClose ==
    /\ route = "transactions"
    /\ txn.request = <<>>
    /\ txn.dialogOpen
    /\ txn' = [txn EXCEPT !.dialogOpen = FALSE, !.opener = "", !.toast = ""]
    /\ UNCHANGED <<transactions, events>> /\ UNCHANGED txnFrame

\* transactionData of handleSubmit
TransactionData(uid, formData) ==
    [user_id |-> uid, description |-> formData.description,
     amount |-> parseFloat(formData.amount),
     transaction_date |-> formData.transaction_date, type |-> formData.type,
     category_id |-> formData.category_id]

\* a row of table `transactions` with the columns of values
TransactionRow(i, values, cats) ==
    [id |-> i, user_id |-> values.user_id, type |-> values.type,
     amount |-> values.amount, transaction_date |-> values.transaction_date,
     categories |-> Joined(cats, values.category_id),
     category_id |-> values.category_id, description |-> values.description]

\* table `transactions` after a request
TransactionsAfter(table, req, cats) ==
    CASE req.op = "insert" -> table \cup {TransactionRow(FreshId, req.values, cats)}
      [] req.op = "update" ->
            {IF t.id # req.id THEN t ELSE TransactionRow(t.id, req.values, cats) : t \in table}
      [] req.op = "delete" -> {t \in table : t.id # req.id}

\* handleSubmit up to its await (the form submits only with its required description,
\* amount and date filled)
TxnSubmit ==
    /\ route = "transactions"
    /\ txn.dialogOpen
    /\ txn.formData.description # ""
    /\ txn.formData.amount # ""
    /\ txn.formData.transaction_date # NoDate
    /\ txn.request = <<>>
    /\ LET request == IF txn.editingTransaction # <<>>
                      THEN Request("update", TransactionData(user, txn.formData), txn.editingTransaction[1].id)
                      ELSE Request("insert", TransactionData(user, txn.formData), 0)
       IN /\ CanWrite(transactions, TransactionsAfter(transactions, request, categories))
          /\ CountWrite(transactions, TransactionsAfter(transactions, request, categories))
          /\ txn' = [txn EXCEPT !.toast = "", !.request = <<request>>]
    /\ UNCHANGED transactions /\ UNCHANGED txnFrame

\* handleSubmit after its await: on error the catch; otherwise the dialog closes, the
\* editing target and the form are reset and fetchTransactions() is called
TxnSubmitResponse(fail) ==
    /\ route = "transactions"
    /\ txn.request # <<>>
    /\ txn.request[1].op \in {"insert", "update"}
    /\ IF fail
       THEN /\ txn' = [txn EXCEPT !.request = <<>>, !.toast = "error"]
            /\ UNCHANGED <<transactions, events>>
       ELSE /\ Len(txn.fetches) < MaxFetches
            /\ transactions' = TransactionsAfter(transactions, txn.request[1], categories)
            /\ UNCHANGED events
            /\ txn' = [txn EXCEPT
                         !.request = <<>>, !.toast = "success", !.dialogOpen = FALSE,
                         !.opener = "", !.editingTransaction = <<>>,
                         !.formData = TxnFormDefaults(NoDate),
                         !.fetches = Append(@, TransactionsQuery(transactions',
                                                                  categories, user))]
    /\ UNCHANGED txnFrame

\* handleDelete(id) up to its await: nothing happens unless confirm() returns true
TxnDelete(confirmed) ==
    /\ route = "transactions"
    /\ ~txn.loading /\ ~txn.dialogOpen
    /\ \E transaction \in txn.transactions :
        LET request == Request("delete", <<>>, transaction.id)
        IN IF confirmed
           THEN /\ txn.request = <<>>
                /\ CanWrite(transactions, TransactionsAfter(transactions, request, categories))
                /\ CountWrite(transactions, TransactionsAfter(transactions, request, categories))
                /\ txn' = [txn EXCEPT !.toast = "", !.request = <<request>>]
           ELSE UNCHANGED <<txn, events>>
    /\ UNCHANGED transactions /\ UNCHANGED txnFrame

\* handleDelete after its await: on error the catch, otherwise fetchTransactions()
TxnDeleteResponse(fail) ==
    /\ route = "transactions"
    /\ txn.request # <<>>
    /\ txn.request[1].op = "delete"
    /\ IF fail
       THEN /\ txn' = [txn EXCEPT !.request = <<>>, !.toast = "error"]
            /\ UNCHANGED <<transactions, events>>
       ELSE /\ Len(txn.fetches) < MaxFetches
            /\ transactions' = TransactionsAfter(transactions, txn.request[1], categories)
            /\ UNCHANGED events
            /\ txn' = [txn EXCEPT
                         !.request = <<>>, !.toast = "success",
                         !.fetches = Append(@, TransactionsQuery(transactions',
                                                                  categories, user))]
    /\ UNCHANGED txnFrame

----------------------------------------------------------------------------
(* BankAccounts *)

BankFormDefaults ==
    [bank_name |-> "", account_number |-> "", account_holder_name |-> "", balance |-> ""]

\* the state of the component, with fetches, request, opener and toast as on the
\* Categories page
BankInit ==
    [pc |-> "idle", accounts |-> {}, loading |-> TRUE, dialogOpen |-> FALSE,
     opener |-> "", editingAccount |-> <<>>, formData |-> BankFormDefaults,
     fetches |-> <<>>, request |-> <<>>, toast |-> ""]

\* what the user may type into the inputs of the form
BankInputs ==
    [bank_name |-> {"BCA"}, account_number |-> {"123"}, account_holder_name |-> {"Ani"},
     balance |-> {"400"}]

\* the variables no step of the BankAccounts page changes
bankFrame ==
    <<tz, now, user, route, transactions, assets, categories, dash, summary,
      dashLoading, rep, monthlyData, categoryData, repLoading, cat, txn, ast, prof>>

\* .from("bank_accounts").select("*").eq("user_id", uid).order("bank_name")
BankAccountsQuery(table, uid) == {a \in table : a.user_id = uid}

\* fetchBankAccounts() up to its await: setLoading(true) and the query
BankFetching(page, table) ==
    [page EXCEPT !.loading = TRUE,
                 !.fetches = Append(@, BankAccountsQuery(table, user))]

\* useEffect: fetchBankAccounts()
BankStart ==
    /\ route = "bank-accounts"
    /\ bank.pc = "idle"
    /\ bank' = BankFetching([bank EXCEPT !.pc = "shown"], bank_accounts)
    /\ UNCHANGED <<bank_accounts, events>> /\ UNCHANGED bankFrame

\* fetchBankAccounts without its finally: a failure leaves the spinner on
BankFetchResponseWithoutFinally ==
    /\ route = "bank-accounts"
    /\ \E i \in 1..Len(bank.fetches) : \E fail \in BOOLEAN :
        /\ CanFail(fail)
        /\ CountFailure(fail)
        /\ \E data \in FetchAnswers(bank.fetches[i],
                                    BankAccountsQuery(bank_accounts, user)) :
            bank' = [bank EXCEPT
                       !.fetches = Without(@, i), !.loading = IF fail THEN @ ELSE FALSE,
                       !.toast = IF fail THEN "error" ELSE "",
                       !.accounts = IF fail THEN @ ELSE data]
    /\ UNCHANGED bank_accounts /\ UNCHANGED bankFrame

\* a fetchBankAccounts in flight resolves, in any order with the others:
\* setAccounts(data || []) or the catch; setLoading(false)
BankFetchResponse ==
    /\ route = "bank-accounts"
    /\ \E i \in 1..Len(bank.fetches) : \E fail \in BOOLEAN :
        /\ CanFail(fail)
        /\ CountFailure(fail)
        /\ \E data \in FetchAnswers(bank.fetches[i],
                                    BankAccountsQuery(bank_accounts, user)) :
            bank' = [bank EXCEPT
                       !.fetches = Without(@, i), !.loading = FALSE,
                       !.toast = IF fail THEN "error" ELSE "",
                       !.accounts = IF fail THEN @ ELSE data]
    /\ UNCHANGED bank_accounts /\ UNCHANGED bankFrame

\* openNewDialog with the editing target left as it is
BankOpenNewKeepingTarget ==
    /\ route = "bank-accounts"
    /\ bank.request = <<>>
    /\ ~bank.loading /\ ~bank.dialogOpen
    /\ bank' = [bank EXCEPT !.formData = BankFormDefaults,
                            !.dialogOpen = TRUE, !.opener = "add", !.toast = ""]
    /\ UNCHANGED <<bank_accounts, events>> /\ UNCHANGED bankFrame

\* openNewDialog, from the Tambah Rekening button
BankOpenNew ==
    /\ route = "bank-accounts"
    /\ bank.request = <<>>
    /\ ~bank.loading /\ ~bank.dialogOpen
    /\ bank' = [bank EXCEPT !.editingAccount = <<>>, !.formData = BankFormDefaults,
                            !.dialogOpen = TRUE, !.opener = "add", !.toast = ""]
    /\ UNCHANGED <<bank_accounts, events>> /\ UNCHANGED bankFrame

\* openEditDialog(account): account.balance.toString() throws on a null balance,
\* after setEditingAccount and before setFormData and setDialogOpen
BankOpenEdit ==
    /\ route = "bank-accounts"
    /\ bank.request = <<>>
    /\ ~bank.loading /\ ~bank.dialogOpen
    /\ \E account \in bank.accounts :
        bank' = IF account.balance = <<>>
                THEN [bank EXCEPT !.editingAccount = <<account>>, !.toast = ""]
                ELSE [bank EXCEPT
                        !.editingAccount = <<account>>,
                        !.formData =
                            [bank_name |-> account.bank_name,
                             account_number |-> account.account_number,
                             account_holder_name |-> account.account_holder_name,
                             balance |-> toString(account.balance[1])],
                        !.dialogOpen = TRUE, !.opener = "edit", !.toast = ""]
    /\ UNCHANGED <<bank_accounts, events>> /\ UNCHANGED bankFrame

\* onChange of the inputs of the form
BankFormChange ==
    /\ route = "bank-accounts"
    /\ bank.request = <<>>
    /\ ~bank.loading /\ bank.dialogOpen
    /\ \E field \in DOMAIN BankInputs : \E value \in BankInputs[field] :
        bank' = [bank EXCEPT !.formData[field] = value, !.toast = ""]
    /\ UNCHANGED <<bank_accounts, events>> /\ UNCHANGED bankFrame

\* onOpenChange(false): the dialog is dismissed
BankDialogClose ==
    /\ route = "bank-accounts"
    /\ bank.request = <<>>
    /\ ~bank.loading /\ bank.dialogOpen
    /\ bank' = [bank EXCEPT !.dialogOpen = FALSE, !.opener = "", !.toast = ""]
    /\ UNCHANGED <<bank_accounts, events>> /\ UNCHANGED bankFrame

\* table `bank_accounts` (or `assets`) after a request: the row a request writes has
\* the columns of its values
TableAfter(table, req) ==
    CASE req.op = "insert" -> table \cup {[id |-> FreshId] @@ req.values}
      [] req.op = "update" ->
            {IF r.id # req.id THEN r ELSE [id |-> r.id] @@ req.values : r \in table}
      [] req.op = "delete" -> {r \in table : r.id # req.id}

\* accountData of handleSubmit
AccountData(uid, formData) ==
    [user_id |-> uid, bank_name |-> formData.bank_name,
     account_number |-> formData.account_number,
     account_holder_name |-> formData.account_holder_name,
     balance |-> parseFloat(formData.balance)]

\* handleSubmit up to its await (the form submits only with its required inputs
\* filled)
BankSubmit ==
    /\ route = "bank-accounts"
    /\ ~bank.loading /\ bank.dialogOpen
    /\ \A field \in DOMAIN BankInputs : bank.formData[field] # ""
    /\ bank.request = <<>>
    /\ LET request == IF bank.editingAccount # <<>>
                      THEN Request("update", AccountData(user, bank.formData), bank.editingAccount[1].id)
                      ELSE Request("insert", AccountData(user, bank.formData), 0)
       IN /\ CanWrite(bank_accounts, TableAfter(bank_accounts, request))
          /\ CountWrite(bank_accounts, TableAfter(bank_accounts, request))
          /\ bank' = [bank EXCEPT !.toast = "", !.request = <<request>>]
    /\ UNCHANGED bank_accounts /\ UNCHANGED bankFrame

\* handleSubmit after its await: on error the catch; otherwise the dialog closes and
\* fetchBankAccounts() is called (the editing target and the form stay as they are)
BankSubmitResponse(fail) ==
    /\ route = "bank-accounts"
    /\ bank.request # <<>>
    /\ bank.request[1].op \in {"insert", "update"}
    /\ IF fail
       THEN /\ bank' = [bank EXCEPT !.request = <<>>, !.toast = "error"]
            /\ UNCHANGED <<bank_accounts, events>>
       ELSE /\ Len(bank.fetches) < MaxFetches
            /\ bank_accounts' = TableAfter(bank_accounts, bank.request[1])
            /\ UNCHANGED events
            /\ bank' = BankFetching([bank EXCEPT !.request = <<>>, !.toast = "success",
                                                 !.dialogOpen = FALSE, !.opener = ""],
                                    bank_accounts')
    /\ UNCHANGED bankFrame

\* handleDelete(id) up to its await: nothing happens unless confirm() returns true
BankDelete(confirmed) ==
    /\ route = "bank-accounts"
    /\ ~bank.loading /\ ~bank.dialogOpen
    /\ \E account \in bank.accounts :
        LET request == Request("delete", <<>>, account.id)
        IN IF confirmed
           THEN /\ bank.request = <<>>
                /\ CanWrite(bank_accounts, TableAfter(bank_accounts, request))
                /\ CountWrite(bank_accounts, TableAfter(bank_accounts, request))
                /\ bank' = [bank EXCEPT !.toast = "", !.request = <<request>>]
           ELSE UNCHANGED <<bank, events>>
    /\ UNCHANGED bank_accounts /\ UNCHANGED bankFrame

\* handleDelete after its await: on error the catch, otherwise fetchBankAccounts()
BankDeleteResponse(fail) ==
    /\ route = "bank-accounts"
    /\ bank.request # <<>>
    /\ bank.request[1].op = "delete"
    /\ IF fail
       THEN /\ bank' = [bank EXCEPT !.request = <<>>, !.toast = "error"]
            /\ UNCHANGED <<bank_accounts, events>>
       ELSE /\ Len(bank.fetches) < MaxFetches
            /\ bank_accounts' = TableAfter(bank_accounts, bank.request[1])
            /\ UNCHANGED events
            /\ bank' = BankFetching([bank EXCEPT !.request = <<>>, !.toast = "success"],
                                    bank_accounts')
    /\ UNCHANGED bankFrame

----------------------------------------------------------------------------
(* Assets *)

AssetFormDefaults(date) ==
    [name |-> "", type |-> "", acquired_at |-> date, initial_value |-> "",
     current_value |-> ""]

\* the state of the component, with fetches, request, opener and toast as on the
\* Categories page
AssetInit ==
    [pc |-> "idle", assets |-> {}, loading |-> TRUE, dialogOpen |-> FALSE,
     opener |-> "", editingAsset |-> <<>>, formData |-> AssetFormDefaults(NoDate),
     fetches |-> <<>>, request |-> <<>>, toast |-> ""]

\* what the user may type into the inputs of the form
AssetInputs ==
    [name |-> {"Car"}, type |-> {"Kendaraan"}, acquired_at |-> {Date(2024, 5, 12)},
     initial_value |-> {"400"}, current_value |-> {"400"}]

\* the variables no step of the Assets page changes
astFrame ==
    <<tz, now, user, route, transactions, bank_accounts, categories, dash, summary,
      dashLoading, rep, monthlyData, categoryData, repLoading, cat, txn, bank, prof>>

\* the query without .eq("user_id", uid)
AssetsQueryOfEveryone(table, uid) == table

\* .from("assets").select("*").eq("user_id", uid).order("acquired_at", desc)
AssetsQuery(table, uid) == {a \in table : a.user_id = uid}

\* fetchAssets() up to its await: setLoading(true) and the query
AssetFetching(page, table) ==
    [page EXCEPT !.loading = TRUE,
                 !.fetches = Append(@, AssetsQuery(table, user))]

\* useEffect: fetchAssets()
AssetStart ==
    /\ route = "assets"
    /\ ast.pc = "idle"
    /\ ast' = AssetFetching([ast EXCEPT !.pc = "shown"], assets)
    /\ UNCHANGED <<assets, events>> /\ UNCHANGED astFrame

\* a fetchAssets in flight resolves, in any order with the others:
\* setAssets(data || []) or the catch; setLoading(false)
AssetFetchResponse ==
    /\ route = "assets"
    /\ \E i \in 1..Len(ast.fetches) : \E fail \in BOOLEAN :
        /\ CanFail(fail)
        /\ CountFailure(fail)
        /\ \E data \in FetchAnswers(ast.fetches[i],
                                    AssetsQuery(assets, user)) :
            ast' = [ast EXCEPT
                       !.fetches = Without(@, i), !.loading = FALSE,
                       !.toast = IF fail THEN "error" ELSE "",
                       !.assets = IF fail THEN @ ELSE data]
    /\ UNCHANGED assets /\ UNCHANGED astFrame

\* openNewDialog, from the Tambah Aset button: acquired_at defaults to
\* new Date().toISOString().substring(0, 10)
AssetOpenNew ==
    /\ route = "assets"
    /\ ast.request = <<>>
    /\ ~ast.loading /\ ~ast.dialogOpen
    /\ ast' = [ast EXCEPT !.editingAsset = <<>>,
                          !.formData = AssetFormDefaults(DatePart(toISOString(now, tz))),
                          !.dialogOpen = TRUE, !.opener = "add", !.toast = ""]
    /\ UNCHANGED <<assets, events>> /\ UNCHANGED astFrame

\* openEditDialog(asset): asset.initial_value.toString() (or that of current_value)
\* throws on a null value, after setEditingAsset and before setFormData and
\* setDialogOpen
AssetOpenEdit ==
    /\ route = "assets"
    /\ ast.request = <<>>
    /\ ~ast.loading /\ ~ast.dialogOpen
    /\ \E asset \in ast.assets :
        ast' = IF asset.initial_value = <<>> \/ asset.current_value = <<>>
                THEN [ast EXCEPT !.editingAsset = <<asset>>, !.toast = ""]
                ELSE [ast EXCEPT
                        !.editingAsset = <<asset>>,
                        !.formData =
                            [name |-> asset.name, type |-> asset.type,
                             acquired_at |-> asset.acquired_at,
                             initial_value |-> toString(asset.initial_value[1]),
                             current_value |-> toString(asset.current_value[1])],
                        !.dialogOpen = TRUE, !.opener = "edit", !.toast = ""]
    /\ UNCHANGED <<assets, events>> /\ UNCHANGED astFrame

\* onChange of the inputs of the form
AssetFormChange ==
    /\ route = "assets"
    /\ ast.request = <<>>
    /\ ~ast.loading /\ ast.dialogOpen
    /\ \E field \in DOMAIN AssetInputs : \E value \in AssetInputs[field] :
        ast' = [ast EXCEPT !.formData[field] = value, !.toast = ""]
    /\ UNCHANGED <<assets, events>> /\ UNCHANGED astFrame

\* onOpenChange(false): the dialog is dismissed
AssetDialogClose ==
    /\ route = "assets"
    /\ ast.request = <<>>
    /\ ~ast.loading /\ ast.dialogOpen
    /\ ast' = [ast EXCEPT !.dialogOpen = FALSE, !.opener = "", !.toast = ""]
    /\ UNCHANGED <<assets, events>> /\ UNCHANGED astFrame

\* assetData of handleSubmit
AssetData(uid, formData) ==
    [user_id |-> uid, name |-> formData.name, type |-> formData.type,
     acquired_at |-> formData.acquired_at,
     initial_value |-> parseFloat(formData.initial_value),
     current_value |-> parseFloat(formData.current_value)]

\* handleSubmit up to its await (the form submits only with its required inputs
\* filled)
AssetSubmit ==
    /\ route = "assets"
    /\ ~ast.loading /\ ast.dialogOpen
    /\ \A field \in {"name", "type", "initial_value", "current_value"} :
          ast.formData[field] # ""
    /\ ast.formData.acquired_at # NoDate
    /\ ast.request = <<>>
    /\ LET request == IF ast.editingAsset # <<>>
                      THEN Request("update", AssetData(user, ast.formData), ast.editingAsset[1].id)
                      ELSE Request("insert", AssetData(user, ast.formData), 0)
       IN /\ CanWrite(assets, TableAfter(assets, request))
          /\ CountWrite(assets, TableAfter(assets, request))
          /\ ast' = [ast EXCEPT !.toast = "", !.request = <<request>>]
    /\ UNCHANGED assets /\ UNCHANGED astFrame

\* handleSubmit with a catch that also closes the dialog
AssetSubmitResponseClosing(fail) ==
    /\ route = "assets"
    /\ ast.request # <<>>
    /\ ast.request[1].op \in {"insert", "update"}
    /\ IF fail
       THEN /\ ast' = [ast EXCEPT !.request = <<>>, !.toast = "error",
                                   !.dialogOpen = FALSE, !.opener = ""]
            /\ UNCHANGED <<assets, events>>
       ELSE /\ Len(ast.fetches) < MaxFetches
            /\ assets' = TableAfter(assets, ast.request[1])
            /\ UNCHANGED events
            /\ ast' = AssetFetching([ast EXCEPT !.request = <<>>, !.toast = "success",
                                                 !.dialogOpen = FALSE, !.opener = ""],
                                    assets')
    /\ UNCHANGED astFrame

\* handleSubmit after its await: on error the catch; otherwise the dialog closes and
\* fetchAssets() is called (the editing target and the form stay as they are)
AssetSubmitResponse(fail) ==
    /\ route = "assets"
    /\ ast.request # <<>>
    /\ ast.request[1].op \in {"insert", "update"}
    /\ IF fail
       THEN /\ ast' = [ast EXCEPT !.request = <<>>, !.toast = "error"]
            /\ UNCHANGED <<assets, events>>
       ELSE /\ Len(ast.fetches) < MaxFetches
            /\ assets' = TableAfter(assets, ast.request[1])
            /\ UNCHANGED events
            /\ ast' = AssetFetching([ast EXCEPT !.request = <<>>, !.toast = "success",
                                                 !.dialogOpen = FALSE, !.opener = ""],
                                    assets')
    /\ UNCHANGED astFrame

\* handleDelete(id) up to its await: nothing happens unless confirm() returns true
AssetDelete(confirmed) ==
    /\ route = "assets"
    /\ ~ast.loading /\ ~ast.dialogOpen
    /\ \E asset \in ast.assets :
        LET request == Request("delete", <<>>, asset.id)
        IN IF confirmed
           THEN /\ ast.request = <<>>
                /\ CanWrite(assets, TableAfter(assets, request))
                /\ CountWrite(assets, TableAfter(assets, request))
                /\ ast' = [ast EXCEPT !.toast = "", !.request = <<request>>]
           ELSE UNCHANGED <<ast, events>>
    /\ UNCHANGED assets /\ UNCHANGED astFrame

\* handleDelete after its await: on error the catch, otherwise fetchAssets()
AssetDeleteResponse(fail) ==
    /\ route = "assets"
    /\ ast.request # <<>>
    /\ ast.request[1].op = "delete"
    /\ IF fail
       THEN /\ ast' = [ast EXCEPT !.request = <<>>, !.toast = "error"]
            /\ UNCHANGED <<assets, events>>
       ELSE /\ Len(ast.fetches) < MaxFetches
            /\ assets' = TableAfter(assets, ast.request[1])
            /\ UNCHANGED events
            /\ ast' = AssetFetching([ast EXCEPT !.request = <<>>, !.toast = "success"],
                                    assets')
    /\ UNCHANGED astFrame


----------------------------------------------------------------------------
(* Profile: the password form *)

\* the state of the component that the password form reads and writes; request: the
\* auth.updateUser({ password }) in flight; toast: what the latest step reported
ProfInit ==
    [password |-> "", confirmPassword |-> "", loadingPassword |-> FALSE,
     request |-> <<>>, toast |-> ""]

\* what the user may type into the two inputs: seven, eight and eight characters
Passwords == {"secret7", "secret88", "another8"}

\* the variables no step of the Profile page changes
profFrame ==
    <<tz, now, user, route, transactions, bank_accounts, assets, categories, dash,
      summary, dashLoading, rep, monthlyData, categoryData, repLoading, cat, txn, bank,
      ast, events>>

\* onChange of the password and confirmPassword inputs
ProfPasswordChange ==
    /\ route = "profile"
    /\ \E field \in {"password", "confirmPassword"} : \E value \in Passwords :
        prof' = [prof EXCEPT ![field] = value, !.toast = ""]
    /\ UNCHANGED profFrame

\* the length check of handlePasswordUpdate left out
PasswordRefused(password, confirmPassword) == password # confirmPassword

\* handlePasswordUpdate returns early, with a toast: password !== confirmPassword,
\* or password.length < 8
PasswordRejected(password, confirmPassword) ==
    password # confirmPassword \/ Len(password) < 8

\* handlePasswordUpdate up to its await (the form submits only with both required
\* inputs filled, and its button is disabled while loadingPassword)
handlePasswordUpdate ==
    /\ route = "profile"
    /\ prof.password # "" /\ prof.confirmPassword # ""
    /\ ~prof.loadingPassword
    /\ prof' = IF PasswordRejected(prof.password, prof.confirmPassword)
               THEN [prof EXCEPT !.toast = "error"]
               ELSE [prof EXCEPT !.loadingPassword = TRUE, !.toast = "",
                                 !.request = <<[password |-> prof.password]>>]
    /\ UNCHANGED profFrame

\* handlePasswordUpdate clearing both inputs on either outcome
ProfPasswordResponseClearing(fail) ==
    /\ route = "profile"
    /\ prof.request # <<>>
    /\ prof' = IF fail
               THEN [prof EXCEPT !.request = <<>>, !.loadingPassword = FALSE,
                                 !.toast = "error", !.password = "",
                                 !.confirmPassword = ""]
               ELSE [prof EXCEPT !.request = <<>>, !.loadingPassword = FALSE,
                                 !.toast = "success", !.password = "",
                                 !.confirmPassword = ""]
    /\ UNCHANGED profFrame

\* handlePasswordUpdate after its await: on error the catch, otherwise both inputs
\* are cleared; finally setLoadingPassword(false)
ProfPasswordResponse(fail) ==
    /\ route = "profile"
    /\ prof.request # <<>>
    /\ prof' = IF fail
               THEN [prof EXCEPT !.request = <<>>, !.loadingPassword = FALSE,
                                 !.toast = "error"]
               ELSE [prof EXCEPT !.request = <<>>, !.loadingPassword = FALSE,
                                 !.toast = "success", !.password = "",
                                 !.confirmPassword = ""]
    /\ UNCHANGED profFrame

----------------------------------------------------------------------------
(* The environment: the clock and other sessions writing to the store *)

TimeZones == {0 - 5, 0, 7}

StartClocks == {DateTime(2024, 5, 15, 12), DateTime(2024, 5, 31, 23)}

\* the transaction tables a session starts from: empty, each single row, the rows of
\* the specification's scenarios, two expenses of one category, expenses of two
\* categories with a NULL amount
TxRows(ids) == {t \in TxUniverse : t.id \in ids}

InitialTransactions ==
    {TxRows({i}) : i \in 0..11} \cup {TxRows({1, 2, 3}), TxRows({2, 7}), TxRows({2, 4, 9})}


\* the pages the router mounts (one per behaviour): those that aggregate over dates,
\* for which the clock, the time zones and the writes of other sessions to the tables
\* the page reads are varied, and those that edit, which start from one clock and
\* from the tables of ListedTransactions and ListedAccounts, and under which the
\* store changes by their own requests
AggregatePages == {"dashboard", "reports"}
ListPages == {"categories", "transactions", "bank-accounts", "assets"}
Routes == AggregatePages \cup ListPages \cup {"profile"}

\* the transaction table the Transactions page starts from: an expense with a
\* category beside a row of another owner
ListedTransactions == {TxRows({2, 11})}

\* the accounts the BankAccounts page starts from: one of the user, one of another
ListedAccounts == {a \in AccountUniverse : a.id \in {1, 3}}

\* the transactions and bank accounts a page starts from; the Dashboard, the one page
\* that reads the accounts without listing them, also starts from a store without any
InitialStores(page) ==
    CASE page = "dashboard" ->
            (InitialTransactions \X {AccountUniverse}) \cup {<<TxRows({1, 2, 3}), {}>>}
      [] page = "reports" -> InitialTransactions \X {AccountUniverse}
      [] OTHER -> ListedTransactions \X {ListedAccounts}

\* the categories a page starts from: the pages that edit start without the category
\* no listed transaction refers to
InitialCategories(page) ==
    IF page \in AggregatePages THEN CategoryUniverse
    ELSE {k \in CategoryUniverse : k.id # "c2"}

\* time passes while a page waits
Tick ==
    /\ route \in AggregatePages
    /\ events < MaxEvents
    /\ now' = NextHour(now)
    /\ events' = events + 1
    /\ UNCHANGED <<tz, user, store>>
    /\ UNCHANGED dashVars /\ UNCHANGED repVars /\ UNCHANGED route /\ UNCHANGED crudVars

\* a table with one row of the universe created or deleted
Written(table, universe) ==
    {table \cup {r} : r \in universe \ table} \cup {table \ {r} : r \in table}

StoreWriteTransaction ==
    /\ route \in AggregatePages
    /\ events < MaxEvents
    /\ transactions' \in Written(transactions, TxUniverse)
    /\ events' = events + 1
    /\ UNCHANGED <<tz, now, user, bank_accounts, assets>>
    /\ UNCHANGED dashVars /\ UNCHANGED repVars /\ UNCHANGED route /\ UNCHANGED crudVars

StoreWriteAccount ==
    /\ route = "dashboard"
    /\ events < MaxEvents
    /\ bank_accounts' \in Written(bank_accounts, AccountUniverse)
    /\ events' = events + 1
    /\ UNCHANGED <<tz, now, user, transactions, assets>>
    /\ UNCHANGED dashVars /\ UNCHANGED repVars /\ UNCHANGED route /\ UNCHANGED crudVars

StoreWriteAsset ==
    /\ route = "dashboard"
    /\ events < MaxEvents
    /\ assets' \in Written(assets, AssetUniverse)
    /\ events' = events + 1
    /\ UNCHANGED <<tz, now, user, transactions, bank_accounts>>
    /\ UNCHANGED dashVars /\ UNCHANGED repVars /\ UNCHANGED route /\ UNCHANGED crudVars

----------------------------------------------------------------------------
(* Specifications *)

\* a session that has just mounted one of the pages
Mounted(pages) ==
    /\ route \in pages
    /\ tz \in (IF route \in AggregatePages THEN TimeZones ELSE {7})
    /\ now \in (IF route \in AggregatePages THEN StartClocks
                ELSE {DateTime(2024, 5, 12, 12)})
    /\ user = "u1"
    /\ \E initial \in InitialStores(route) :
          transactions = initial[1] /\ bank_accounts = initial[2]
    /\ assets = AssetUniverse
    /\ categories = InitialCategories(route)
    /\ dash = DashInit /\ summary = SummaryInit /\ dashLoading = TRUE
    /\ rep = RepInit /\ monthlyData = <<>> /\ categoryData = <<>> /\ repLoading = TRUE
    /\ cat = CatInit
    /\ txn = TxnInit
    /\ bank = BankInit
    /\ ast = AssetInit
    /\ prof = ProfInit
    /\ events = 0

EnvNext == Tick \/ StoreWriteTransaction \/ StoreWriteAccount \/ StoreWriteAsset

DashNext == DashStart \/ DashTxResponse \/ DashAccountsResponse \/ DashAssetsResponse

RepNext == RepStart \/ RepMonthlyResponse \/ RepSetMonthly \/ RepCategoryResponse

CatNext ==
    \/ CatStart \/ CatFetchResponse \/ CatOpenNew \/ CatOpenEdit \/ CatFormChange
    \/ CatTypeChange \/ CatDialogClose \/ CatSubmit
    \/ \E fail \in BOOLEAN : CatSubmitResponse(fail) \/ CatDeleteResponse(fail)
    \/ \E confirmed \in BOOLEAN : CatDelete(confirmed)

TxnNext ==
    \/ TxnStart \/ TxnFetchResponse \/ TxnCategoriesResponse \/ TxnOpenNew \/ TxnOpenEdit
    \/ TxnTypeChange \/ TxnSelectCategory \/ TxnFormChange \/ TxnDialogClose
    \/ TxnSubmit
    \/ \E fail \in BOOLEAN : TxnSubmitResponse(fail) \/ TxnDeleteResponse(fail)
    \/ \E confirmed \in BOOLEAN : TxnDelete(confirmed)

BankNext ==
    \/ BankStart \/ BankFetchResponse \/ BankOpenNew \/ BankOpenEdit \/ BankFormChange
    \/ BankDialogClose \/ BankSubmit
    \/ \E fail \in BOOLEAN : BankSubmitResponse(fail) \/ BankDeleteResponse(fail)
    \/ \E confirmed \in BOOLEAN : BankDelete(confirmed)

AssetNext ==
    \/ AssetStart \/ AssetFetchResponse \/ AssetOpenNew \/ AssetOpenEdit
    \/ AssetFormChange \/ AssetDialogClose \/ AssetSubmit
    \/ \E fail \in BOOLEAN : AssetSubmitResponse(fail) \/ AssetDeleteResponse(fail)
    \/ \E confirmed \in BOOLEAN : AssetDelete(confirmed)

ProfNext ==
    \/ ProfPasswordChange \/ handlePasswordUpdate
    \/ \E fail \in BOOLEAN : ProfPasswordResponse(fail)

\* the pages that aggregate, with the clock and the other sessions
Init == Mounted(AggregatePages)

Next == DashNext \/ RepNext \/ EnvNext

Spec == Init /\ [][Next]_vars

\* the pages that edit a table, and the password form
PagesInit == Mounted(ListPages \cup {"profile"})

PagesNext == CatNext \/ TxnNext \/ BankNext \/ AssetNext \/ ProfNext

PagesSpec == PagesInit /\ [][PagesNext]_vars

\* the pages whose fetch ends in a `finally`, with every request in flight answered
\* in the end (by rows, by an error or by a throw) and every continuation run. The
\* aggregate pages start from one store, late on the last day of a month; the
\* Transactions page is left with its dialog closed, so that its refetches are those
\* of handleDelete
FetchingPages == {"dashboard", "reports", "transactions", "bank-accounts"}

FairInit ==
    /\ Mounted(FetchingPages)
    /\ route \in AggregatePages =>
          /\ tz = 7
          /\ now = DateTime(2024, 5, 31, 23)
          /\ transactions = TxRows({1, 2, 3})
          /\ bank_accounts = AccountUniverse

TxnFetching ==
    \/ TxnStart \/ TxnFetchResponse \/ TxnCategoriesResponse
    \/ \E fail \in BOOLEAN : TxnDeleteResponse(fail)
    \/ \E confirmed \in BOOLEAN : TxnDelete(confirmed)

FairNext == DashNext \/ RepNext \/ EnvNext \/ TxnFetching \/ BankNext

Answered ==
    /\ WF_vars(DashTxResponse) /\ WF_vars(DashAccountsResponse) /\ WF_vars(DashAssetsResponse)
    /\ WF_vars(RepMonthlyResponse) /\ WF_vars(RepSetMonthly) /\ WF_vars(RepCategoryResponse)
    /\ WF_vars(TxnFetchResponse)
    /\ WF_vars(BankFetchResponse)

FairSpec == FairInit /\ [][FairNext]_vars /\ Answered

----------------------------------------------------------------------------
(* What the properties speak of *)


\* Dashboard has set the summary it shows; Reports has set the series it shows
DashShown == dash.pc = "done"
RepSeriesSet == rep.pc \in {"awaitCategory", "done"}
RepShown == rep.pc = "done"

\* the calendar month of the reference date, and a date's place against it
AfterMonthOf(date, ref) == MonthIndex(date) > MonthIndex(ref)
BeforeMonthOf(date, ref) == MonthIndex(date) < MonthIndex(ref)

\* the N calendar months ending with the month of ref
CoveredMonths(ref) == {MonthIndex(ref) - i : i \in 0..(NumMonths - 1)}

RECURSIVE SeriesSum(_, _)
SeriesSum(series, field) ==
    IF series = <<>> THEN 0
    ELSE series[Len(series)][field] + SeriesSum(SubSeq(series, 1, Len(series) - 1), field)

\* the rows a Reports run has summed into its series and its breakdown
RepMonthlyRows == UNION {rep.results[q].rows : q \in 1..Len(rep.results)}
RepRows == RepMonthlyRows \cup rep.catRes.rows

\* the rows a Dashboard run has summed
DashRows == dash.txRes.rows \cup dash.accRes.rows \cup dash.astRes.rows

----------------------------------------------------------------------------
(* The claims *)

\* C1: the Dashboard's monthly totals leave out every transaction dated after the
\* last day of the current month: the income and expense shown are the sums over the
\* fetched rows that are not dated after the month of the run's reference date.
C1_NoRowAfterMonth ==
    DashShown =>
        LET kept == Rows({t \in dash.txRes.rows : ~AfterMonthOf(t.transaction_date, dash.ref)})
        IN /\ summary.totalIncome = SumOfKind(kept, "income")
           /\ summary.totalExpense = SumOfKind(kept, "expense")

\* C2: in every time zone, the Dashboard's monthly totals leave out every transaction
\* dated before the first day of the current month.
C2_NoRowBeforeMonth ==
    DashShown =>
        LET kept == Rows({t \in dash.txRes.rows : ~BeforeMonthOf(t.transaction_date, dash.ref)})
        IN /\ summary.totalIncome = SumOfKind(kept, "income")
           /\ summary.totalExpense = SumOfKind(kept, "expense")

\* C3: the incomes (and the expenses) of the trailing series add up to the income
\* (expense) of the user's transactions dated in exactly the N covered calendar
\* months; stated for a run during which the clock stood still, no other session
\* wrote and no query failed.
C3_SeriesSumsCoveredMonths ==
    (RepSeriesSet /\ events = 0) =>
        \A kind \in Kinds :
            SeriesSum(monthlyData, kind) =
                SumPlain({t \in transactions :
                            /\ t.user_id = rep.uid
                            /\ t.type = kind
                            /\ MonthIndex(t.transaction_date) \in CoveredMonths(rep.reads[1])})

\* C4: the trailing series has exactly N entries, the q-th labelled with the calendar
\* month N - q months before the current one (of some one reading of the clock taken
\* during the run), so that no month is skipped, and an entry whose query returned
\* no row is 0 and 0.
C4_SeriesOnePerMonth ==
    RepSeriesSet =>
        /\ Len(monthlyData) = NumMonths
        /\ \E c \in {rep.reads[q] : q \in 1..NumMonths} \cup
                    {rep.labelReads[q] : q \in 1..NumMonths} :
              \A q \in 1..NumMonths : monthlyData[q].month = formatMMM(subMonths(c, NumMonths - q))
        /\ \A q \in 1..NumMonths :
              rep.results[q].rows = {} => monthlyData[q].income = 0 /\ monthlyData[q].expense = 0

\* C5: no summary and no series is produced from rows that include a transaction whose
\* kind is neither income nor expense (such a run ends in an error instead).
C5_UnknownKindRejected ==
    /\ DashShown => \A t \in dash.txRes.rows : t.type \in Kinds
    /\ RepSeriesSet => \A t \in RepMonthlyRows : t.type \in Kinds

\* C6: no summary, series or breakdown is produced from rows that include a transaction
\* with a missing or a negative amount (such a run ends in an error instead).
C6_BadAmountRejected ==
    /\ DashShown => \A t \in dash.txRes.rows : t.amount # <<>> /\ t.amount[1] >= 0
    /\ RepSeriesSet => \A t \in RepRows : t.amount # <<>> /\ t.amount[1] >= 0

\* C7: the Dashboard summary and the Reports series are never produced from a failed
\* query: when either is shown, every query that fed it had succeeded.
C7_NoAggregateFromFailedQuery ==
    /\ DashShown => ~dash.txRes.isNull /\ ~dash.accRes.isNull /\ ~dash.astRes.isNull
    /\ RepSeriesSet => \A q \in 1..NumMonths : ~rep.results[q].isNull

\* C8: the results combined into one displayed aggregate all reflect one state of the
\* store: some state the store was in when a query of the run was answered gives every
\* result of the run (stated for runs none of whose queries failed).
C8_ConsistentSnapshot ==
    /\ (DashShown /\ ~dash.txRes.isNull /\ ~dash.accRes.isNull /\ ~dash.astRes.isNull) =>
          \E S \in dash.snaps :
              /\ dash.txRes.rows = DashTxQuery(S, dash.uid, dash.from)
              /\ dash.accRes.rows = DashAccountsQuery(S, dash.uid)
              /\ dash.astRes.rows = DashAssetsQuery(S, dash.uid)
    /\ (RepShown /\ ~rep.threw /\ \A q \in 1..NumMonths : ~rep.results[q].isNull) =>
          \E S \in rep.snaps :
              /\ \A q \in 1..NumMonths :
                    rep.results[q].rows = RepMonthQuery(S, rep.uid, rep.ranges[q])
              /\ rep.catRes.rows = RepCategoryQuery(S, rep.uid, rep.catFrom)

\* C9: a run's output is a function of the rows and of the reference date read when it
\* started: whenever a run ends over an unchanged store with no failed query, what it
\* shows is what the same run shows when the clock stands still (the breakdown up to
\* the order in which the store returns the rows).
C9_DeterministicInReferenceDate ==
    /\ (DashShown /\ dash.snaps = {StoreNow} /\ ~dash.txRes.isNull) =>
          LET res == Rows(DashTxQuery(StoreNow, dash.uid, DashFrom(dash.ref, tz)))
          IN /\ summary.totalIncome = SumOfKind(res, "income")
             /\ summary.totalExpense = SumOfKind(res, "expense")
    /\ (RepShown /\ rep.snaps = {StoreNow} /\ ~rep.threw
          /\ \A q \in 1..NumMonths : ~rep.results[q].isNull) =>
          LET ref == rep.reads[1]
              still == [q \in 1..NumMonths |->
                          RepEntry(ref,
                                   Rows(RepMonthQuery(StoreNow, rep.uid,
                                                      RepRange(ref, tz, NumMonths - q))),
                                   q)]
              rows == RepCategoryQuery(StoreNow, rep.uid, toISOString(startOfMonth(ref), tz))
          IN /\ monthlyData = still
             /\ categoryData \in {ExpenseByCategory(order) : order \in Orders(rows)}

\* C10: every row that enters one aggregate computation belongs to the one user the
\* run was started for: each query of a run of fetchSummaryData or fetchReportData is
\* filtered by that same user id, so no row of another owner is summed.
C10_OneOwnerPerRun ==
    /\ dash.pc # "idle" => dash.uid = user /\ \A r \in DashRows : r.user_id = dash.uid
    /\ rep.pc # "idle" => rep.uid = user /\ \A r \in RepRows : r.user_id = rep.uid

\* C10 witness: a Dashboard run has ended having summed rows of its user while the
\* store also held transactions, accounts and assets of another owner
C10_Witness ==
    /\ DashShown
    /\ dash.txRes.rows # {} /\ dash.accRes.rows # {} /\ dash.astRes.rows # {}
    /\ \E t \in transactions : t.user_id # dash.uid
    /\ \E a \in bank_accounts : a.user_id # dash.uid
    /\ \E a \in assets : a.user_id # dash.uid

----------------------------------------------------------------------------
(* The category breakdown of Reports *)

\* the user's expense transactions dated in the calendar month of ref
CurrentMonthExpenses(S, uid, ref) ==
    {t \in S.tx : /\ t.user_id = uid
                  /\ t.type = "expense"
                  /\ MonthIndex(t.transaction_date) = MonthIndex(ref)}

\* the label a transaction is to be grouped under: its category's name, or the one
\* label of the transactions without a category
GroupLabel(t) == IF t.categories = <<>> THEN "Lain-lain" ELSE t.categories[1].name

\* the groups of the breakdown shown are those of the rows R, each with the sum of
\* the amounts of exactly its rows
IsBreakdownOf(data, R) ==
    /\ {data[g].name : g \in 1..Len(data)} = {GroupLabel(t) : t \in R}
    /\ \A g, h \in 1..Len(data) : data[g].name = data[h].name => g = h
    /\ \A g \in 1..Len(data) :
          data[g].value = SumNumber({t \in R : GroupLabel(t) = data[g].name}, "amount")

\* a Reports run has ended without an error while the clock stood still, no other
\* session wrote and no query failed
RepQuietRun == RepShown /\ ~rep.threw /\ events = 0

\* C11: the breakdown groups the current month's expense transactions of the user by
\* category name, those without a category under the one sentinel label, and each
\* group's total is the sum of the amounts of exactly the transactions of that group.
C11_BreakdownOfCurrentMonth ==
    RepQuietRun => IsBreakdownOf(categoryData, CurrentMonthExpenses(StoreNow, rep.uid, now))

\* C12: a group whose category has no colour of its own (the group of the transactions
\* without a category included) is drawn with the palette entry at (its position in
\* the output) modulo (the palette's length); a group whose category has a colour
\* keeps it.
C12_PaletteByPosition ==
    (RepShown /\ ~rep.threw) =>
        \A g \in 1..Len(categoryData) : \A t \in rep.catRes.rows :
            GroupLabel(t) = categoryData[g].name =>
                PieFills[g] = IF t.categories # <<>> /\ t.categories[1].color # ""
                              THEN t.categories[1].color
                              ELSE COLORS[((g - 1) % Len(COLORS)) + 1]

\* every row of R is linked to one and the same category
AllOfOneCategory(R) ==
    /\ R # {}
    /\ \A t \in R : t.categories # <<>>
    /\ \A t, u \in R : t.categories = u.categories

\* C13: when every expense transaction given to the breakdown is linked to the same
\* category, the breakdown has exactly one group and its total is the sum of all the
\* amounts.
C13_OneCategoryOneGroup ==
    (RepShown /\ ~rep.threw /\ AllOfOneCategory(rep.catRes.rows)) =>
        /\ Len(categoryData) = 1
        /\ categoryData[1].value = SumNumber(rep.catRes.rows, "amount")

\* C13 witness: a run has ended with a breakdown made from two transactions of the
\* one category Food
C13_Witness ==
    /\ RepShown /\ ~rep.threw
    /\ AllOfOneCategory(rep.catRes.rows)
    /\ Cardinality(rep.catRes.rows) = 2
    /\ Len(categoryData) = 1
    /\ categoryData[1].name = "Food"

\* C17: when the user has no expense transaction in the current month, the breakdown
\* is the empty sequence and no error is raised.
C17_NoExpenseEmptyBreakdown ==
    (RepQuietRun /\ CurrentMonthExpenses(StoreNow, rep.uid, now) = {}) =>
        categoryData = <<>>

----------------------------------------------------------------------------
(* The totals of the Dashboard *)

\* a Dashboard run has ended, none of its queries failed and the store was the same
\* at each of them
DashQuietRun ==
    /\ DashShown
    /\ ~dash.txRes.isNull /\ ~dash.accRes.isNull /\ ~dash.astRes.isNull
    /\ Cardinality(dash.snaps) = 1

\* the store the queries of a quiet run were answered from
DashStore == CHOOSE S \in dash.snaps : TRUE

\* C14: the total bank balance is the sum of balance over all bank accounts of the
\* user and the total asset value is the sum of current_value over all assets of the
\* user, whatever their dates and signs; each is 0 when the user has no such row.
C14_PointInTimeTotals ==
    DashQuietRun =>
        /\ summary.totalBankBalance = SumNumber(OwnedBy(DashStore.acc, dash.uid), "balance")
        /\ summary.totalAssets = SumNumber(OwnedBy(DashStore.ast, dash.uid), "current_value")
        /\ OwnedBy(DashStore.acc, dash.uid) = {} => summary.totalBankBalance = 0
        /\ OwnedBy(DashStore.ast, dash.uid) = {} => summary.totalAssets = 0

\* C14 witness: a run has ended for a user with two accounts, one overdrawn, and no
\* asset left
C14_Witness ==
    /\ DashQuietRun
    /\ Cardinality(OwnedBy(DashStore.acc, dash.uid)) = 2
    /\ \E a \in OwnedBy(DashStore.acc, dash.uid) : Number(a.balance) < 0
    /\ summary.totalBankBalance = 480
    /\ OwnedBy(DashStore.ast, dash.uid) = {}
    /\ summary.totalAssets = 0

\* income minus expense taken row by row
RECURSIVE DirectNet(_)
DirectNet(R) ==
    IF R = {} THEN 0
    ELSE LET t == CHOOSE x \in R : TRUE
         IN DirectNet(R \ {t}) + (CASE t.type = "income" -> Number(t.amount)
                                    [] t.type = "expense" -> 0 - Number(t.amount)
                                    [] OTHER -> 0)

\* C15: the net balance shown is always the income shown minus the expense shown, and
\* after every run it is the net of the rows the run's totals were computed from.
C15_NetIsDerived ==
    /\ NetBalance = summary.totalIncome - summary.totalExpense
    /\ DashShown => NetBalance = DirectNet(dash.txRes.rows)

\* C15 witness: a run has ended with income rows and expense rows summed and shows a
\* net that is not 0
C15_Witness ==
    /\ DashShown
    /\ \E t \in dash.txRes.rows : t.type = "income"
    /\ \E t \in dash.txRes.rows : t.type = "expense"
    /\ NetBalance = 600
    /\ summary.totalExpense = 400

\* the user's transactions dated in the calendar month of ref
CurrentMonthTransactions(S, uid, ref) ==
    {t \in S.tx : t.user_id = uid /\ MonthIndex(t.transaction_date) = MonthIndex(ref)}

\* C16: when the user has no transaction in the current month (none at all, or none
\* dated in it) the monthly totals are income 0 and expense 0, and transactions of
\* amount 0 leave the totals what they are without them.
C16_NoMatchZeroTotals ==
    DashQuietRun =>
        /\ CurrentMonthTransactions(DashStore, dash.uid, dash.ref) = {} =>
              summary.totalIncome = 0 /\ summary.totalExpense = 0
        /\ \A kind \in Kinds :
              SumOfKind(dash.txRes, kind) =
                  SumOfKind(Rows({t \in dash.txRes.rows : t.amount # <<0>>}), kind)

----------------------------------------------------------------------------
(* The forms of Categories and Transactions *)

\* C18: the kind of a category is fixed when it is created: no step changes the type
\* of a category the store holds, and every update request the Categories page issues
\* writes the name, the icon and the colour and nothing else.
C18_KindFixedAtCreation ==
    [][/\ \A k \in categories : \A l \in categories' : l.id = k.id => l.type = k.type
       /\ \A r \in 1..Len(cat'.request) :
             cat'.request[r].op = "update" =>
                 DOMAIN cat'.request[r].values = {"name", "icon", "color"}]_vars

\* C18 witness: an update of the page has renamed and recoloured the expense category
\* c1, after the form was opened on it and edited
C18_Witness ==
    \E k \in categories :
        /\ k.id = "c1" /\ k.type = "expense"
        /\ k.name = "Rent" /\ k.color = "#EC4899"

\* a transaction of this type may carry this category_id: none, or the id of a
\* category of the same type
Matches(type, category_id) ==
    category_id = "" \/ \E k \in categories : k.id = category_id /\ k.type = type

\* C19: as long as the rows listed are consistent, the form's category_id is empty or
\* the id of a category whose type is the form's type, and so is that of every insert
\* or update request the form has submitted.
C19_CategoryOfFormType ==
    (\A t \in txn.transactions : Matches(t.type, t.category_id)) =>
        /\ Matches(txn.formData.type, txn.formData.category_id)
        /\ \A r \in 1..Len(txn.request) :
              txn.request[r].op \in {"insert", "update"} =>
                  Matches(txn.request[r].values.type, txn.request[r].values.category_id)

\* C19 witness: the form has submitted an update of the listed expense of category c1
\* as an income of the income category c3, chosen after the type was changed
C19_Witness ==
    /\ txn.request # <<>>
    /\ txn.request[1].op = "update"
    /\ txn.editingTransaction # <<>>
    /\ txn.editingTransaction[1].category_id = "c1"
    /\ txn.request[1].values.type = "income"
    /\ txn.request[1].values.category_id = "c3"

\* C20: no insert or update request of the Transactions form carries a negative
\* amount.
C20_NoNegativeAmount ==
    \A r \in 1..Len(txn.request) :
        txn.request[r].op \in {"insert", "update"} =>
            Number(txn.request[r].values.amount) >= 0

\* C21: the month label of each entry of the trailing series names the calendar month
\* whose transactions were queried for that entry: the label, built from a reading of
\* the clock taken after the six queries were answered, is the month of the date the
\* entry's query range was built from, taken before they were sent.
C21_LabelOfQueriedMonth ==
    RepSeriesSet =>
        \A q \in 1..NumMonths :
            monthlyData[q].month = formatMMM(subMonths(rep.reads[q], NumMonths - q))

----------------------------------------------------------------------------
(* The pages that list and edit a table *)

\* a step in which the last request a page had in flight is answered, and it is a
\* list query that succeeded
Settles(page, pageAfter) ==
    /\ page.fetches # <<>>
    /\ pageAfter.fetches = <<>>
    /\ pageAfter.request = <<>>
    /\ pageAfter.toast # "error"

\* C22: on each list page, once every request in flight has been answered, the list
\* displayed is the user's rows of the store as they are now: of two overlapping
\* refetches the older never overwrites the newer.
C22_ListShowsStoreWhenSettled ==
    [][/\ Settles(cat, cat') => cat'.categories = CategoriesQuery(categories', user)
       /\ (Settles(txn, txn') /\ txn'.categoryFetches = 0) =>
              txn'.transactions = TransactionsQuery(transactions', categories', user)
       /\ Settles(bank, bank') => bank'.accounts = BankAccountsQuery(bank_accounts', user)
       /\ Settles(ast, ast') => ast'.assets = AssetsQuery(assets', user)]_vars

\* a step in which a page sends a write request
Sends(page, pageAfter) == page.request = <<>> /\ pageAfter.request # <<>>

\* C23: on each of the four pages, a submit of the dialog opened by the Add button
\* sends an insert, never an update of a row edited before, whatever was opened,
\* dismissed, submitted or refused earlier.
C23_AddSubmitsInsert ==
    [][/\ (cat.opener = "add" /\ Sends(cat, cat')) => cat'.request[1].op = "insert"
       /\ (txn.opener = "add" /\ Sends(txn, txn')) => txn'.request[1].op = "insert"
       /\ (bank.opener = "add" /\ Sends(bank, bank')) => bank'.request[1].op = "insert"
       /\ (ast.opener = "add" /\ Sends(ast, ast')) => ast'.request[1].op = "insert"]_vars

\* an insert sent from the Add dialog of Transactions after an earlier submit of the
\* page succeeded (its refetch still is in flight)
C23_Witness ==
    /\ txn.opener = "add"
    /\ txn.request # <<>>
    /\ txn.request[1].op = "insert"
    /\ txn.fetches # <<>>

\* what a page is after the catch of handleSubmit: the failure is reported and the
\* request is over; the dialog, the form, the editing target, the list, the spinner
\* and the fetches in flight are those of before
Refused(page) == [page EXCEPT !.request = <<>>, !.toast = "error"]

\* C24: when an insert or update request of one of the four pages fails, the failure
\* is reported and nothing else changes: the dialog stays open, the form data and
\* the editing target are kept, the list displayed and the store are unchanged and
\* no refetch is started.
C24_FailedSubmitKeepsPage ==
    [][/\ CatSubmitResponse(TRUE) => (cat' = Refused(cat) /\ cat'.dialogOpen /\ categories' = categories)
       /\ TxnSubmitResponse(TRUE) => (txn' = Refused(txn) /\ txn'.dialogOpen /\ transactions' = transactions)
       /\ BankSubmitResponse(TRUE) => (bank' = Refused(bank) /\ bank'.dialogOpen /\ bank_accounts' = bank_accounts)
       /\ AssetSubmitResponse(TRUE) => (ast' = Refused(ast) /\ ast'.dialogOpen /\ assets' = assets)]_vars

\* the Assets page after the update of a listed asset, with a changed name, failed
C24_Witness ==
    /\ ast.toast = "error"
    /\ ast.request = <<>>
    /\ ast.dialogOpen
    /\ ast.editingAsset # <<>>
    /\ ast.formData.name # ast.editingAsset[1].name
    /\ ast.fetches = <<>>
    /\ ast.assets = AssetsQuery(assets, user)

\* a step in which a page sends a delete request
SendsDelete(page, pageAfter) == Sends(page, pageAfter) /\ pageAfter.request[1].op = "delete"

\* C25: on each of the four pages a delete request is sent only by a handleDelete
\* whose confirmation was accepted; a handleDelete whose confirmation is declined
\* changes nothing at all (no request, no refetch, the list and the page as before);
\* and a delete request that fails starts no refetch and leaves list and store alone.
C25_DeleteOnlyConfirmed ==
    [][/\ (CatDelete(FALSE) \/ TxnDelete(FALSE) \/ BankDelete(FALSE) \/ AssetDelete(FALSE)) =>
              UNCHANGED vars
       /\ SendsDelete(cat, cat') => CatDelete(TRUE)
       /\ SendsDelete(txn, txn') => TxnDelete(TRUE)
       /\ SendsDelete(bank, bank') => BankDelete(TRUE)
       /\ SendsDelete(ast, ast') => AssetDelete(TRUE)
       /\ CatDeleteResponse(TRUE) => (cat' = Refused(cat) /\ categories' = categories)
       /\ TxnDeleteResponse(TRUE) => (txn' = Refused(txn) /\ transactions' = transactions)
       /\ BankDeleteResponse(TRUE) => (bank' = Refused(bank) /\ bank_accounts' = bank_accounts)
       /\ AssetDeleteResponse(TRUE) => (ast' = Refused(ast) /\ assets' = assets)]_vars

\* the Categories page after a confirmed delete of a listed category failed: the
\* list still is the one of the store and nothing is in flight
C25_Witness ==
    /\ cat.toast = "error"
    /\ cat.pc = "shown"
    /\ ~cat.dialogOpen
    /\ cat.request = <<>>
    /\ cat.fetches = <<>>
    /\ cat.categories # {}
    /\ cat.categories = CategoriesQuery(categories, user)

----------------------------------------------------------------------------
(* Fetches end *)

\* a step in which a fetch of a list page ends
EndsFetch(page, pageAfter) == Len(pageAfter.fetches) < Len(page.fetches)

\* C26: every fetch a page starts is followed by loading = false, whether it is
\* answered by rows, by an error or by a throw: the Dashboard and the Reports page
\* leave the spinner once their run is through, and on Transactions and BankAccounts
\* the step that ends a fetch leaves loading false and no fetch stays in flight with
\* the spinner on forever.
C26_FetchEndsLoading ==
    /\ (dash.pc \in {"awaitTx", "awaitAccounts", "awaitAssets"}) ~> ~dashLoading
    /\ (rep.pc \in {"awaitMonthly", "awaitCategory"}) ~> ~repLoading
    /\ (txn.fetches # <<>>) ~> ~txn.loading
    /\ (bank.fetches # <<>>) ~> ~bank.loading
    /\ [][/\ EndsFetch(txn, txn') => ~txn'.loading
          /\ EndsFetch(bank, bank') => ~bank'.loading]_vars

\* the BankAccounts page after its fetch failed: the error is reported, the list is
\* empty and the spinner is off
C26_Witness ==
    /\ bank.pc = "shown"
    /\ bank.toast = "error"
    /\ bank.fetches = <<>>
    /\ bank.accounts = {}
    /\ ~bank.loading

----------------------------------------------------------------------------
(* The password form *)

\* the new password is the confirmation and has eight characters or more
Acceptable(page) == page.password = page.confirmPassword /\ Len(page.password) >= 8

\* C27: handlePasswordUpdate sends a password update only when the new password
\* equals the confirmation and is at least 8 characters long, and the request carries
\* that password; otherwise it reports an error, sends nothing and leaves password,
\* confirmPassword and loadingPassword as they are.
C27_PasswordChecked ==
    [][/\ Sends(prof, prof') =>
              (Acceptable(prof) /\ prof'.request = <<[password |-> prof.password]>>)
       /\ (handlePasswordUpdate /\ ~Acceptable(prof)) => prof' = [prof EXCEPT !.toast = "error"]
       /\ (handlePasswordUpdate /\ Acceptable(prof)) => Sends(prof, prof')]_vars

\* a password of seven characters, typed twice, was refused
C27_Witness ==
    /\ prof.toast = "error"
    /\ prof.password = "secret7"
    /\ prof.confirmPassword = "secret7"
    /\ prof.request = <<>>
    /\ ~prof.loadingPassword

\* C28: when the request of handlePasswordUpdate is over, loadingPassword is false on
\* either outcome; after a success the password and the confirmation are both empty,
\* after a failure both are what they were (and not empty).
C28_PasswordFieldsAfterRequest ==
    [][/\ (prof.request # <<>> /\ prof'.request = <<>>) => ~prof'.loadingPassword
       /\ ProfPasswordResponse(FALSE) => (prof'.password = "" /\ prof'.confirmPassword = "")
       /\ ProfPasswordResponse(TRUE) =>
              /\ prof'.password = prof.password /\ prof'.confirmPassword = prof.confirmPassword
              /\ prof'.password # "" /\ prof'.confirmPassword # ""]_vars

\* the form after a password update failed: both inputs still hold the password
C28_Witness ==
    /\ prof.toast = "error"
    /\ prof.request = <<>>
    /\ ~prof.loadingPassword
    /\ prof.password = "secret88"
    /\ prof.confirmPassword = "secret88"

----------------------------------------------------------------------------
(* The rows a page writes to *)

Ids(rows) == {r.id : r \in rows}

\* a step that sets the editing target sets it to a row of the list
Picks(editing, editingAfter, list) ==
    (editingAfter # editing /\ editingAfter # <<>>) => editingAfter[1] \in list

\* a step that sends an update or a delete sends it for the id of the editing
\* target or, for a delete, of a row of the list
Targets(page, pageAfter, editing, list) ==
    Sends(page, pageAfter) =>
        CASE pageAfter.request[1].op = "update" ->
                editing # <<>> /\ pageAfter.request[1].id = editing[1].id
          [] pageAfter.request[1].op = "delete" -> pageAfter.request[1].id \in Ids(list)
          [] OTHER -> TRUE

\* C29: on each of the four pages the list holds rows of the authenticated user only,
\* the editing target is a row taken from the list, every update is sent for the id
\* of the editing target and every delete for the id of a listed row: no page
\* updates or deletes a row id that was never in its list.
C29_WritesTargetListedRows ==
    /\ [](/\ \A r \in cat.categories \cup txn.transactions : r.user_id = user
          /\ \A r \in bank.accounts \cup ast.assets : r.user_id = user
          /\ cat.editingCategory # <<>> => cat.editingCategory[1].user_id = user
          /\ txn.editingTransaction # <<>> => txn.editingTransaction[1].user_id = user
          /\ bank.editingAccount # <<>> => bank.editingAccount[1].user_id = user
          /\ ast.editingAsset # <<>> => ast.editingAsset[1].user_id = user)
    /\ [][/\ Picks(cat.editingCategory, cat'.editingCategory, cat.categories)
          /\ Picks(txn.editingTransaction, txn'.editingTransaction, txn.transactions)
          /\ Picks(bank.editingAccount, bank'.editingAccount, bank.accounts)
          /\ Picks(ast.editingAsset, ast'.editingAsset, ast.assets)
          /\ Targets(cat, cat', cat.editingCategory, cat.categories)
          /\ Targets(txn, txn', txn.editingTransaction, txn.transactions)
          /\ Targets(bank, bank', bank.editingAccount, bank.accounts)
          /\ Targets(ast, ast', ast.editingAsset, ast.assets)]_vars

\* the Assets page has sent an update while the store holds an asset of another user
C29_Witness ==
    /\ ast.request # <<>>
    /\ ast.request[1].op = "update"
    /\ \E a \in assets : a.user_id # user

====
